---- MODULE Spec2Model ----
(***************************************************************************)
(* Folder ingestion of legal-rag: the master task that fans out one worker *)
(* task per file, the worker tasks, the self-rescheduling finalizer, the   *)
(* ProgressTracker keys in Redis and the per-document pipelines (Spec,     *)
(* FairSpec); the session store (SessionSpec); the retrieval agent         *)
(* (RetrievalSpec); the query enhancer, the reranker, the chunkers and the *)
(* node builder as functions of their inputs (FunctionsSpec); the         *)
(* evaluation service (EvaluationSpec); and the session migration tasks    *)
(* of SessionBackgroundTasks (MigrationSpec, FairMigrationSpec).           *)
(***************************************************************************)
EXTENDS Integers, Sequences, FiniteSets, TLC

\* ---------------------------------------------------------------- bounds
MaxPolls == 1
MaxTasks == 2
MaxDirectCalls == 1
MaxGets == 2
MaxUpdateErrors == 1

\* ---------------------------------------------------------------- inputs
FileUniverse == {"a.pdf", "b.PDF"}
ListOrder == <<"a.pdf", "b.PDF">>
Ext == [f \in FileUniverse |-> IF f = "a.pdf" THEN "pdf" ELSE "PDF"]
ChunkCount == [f \in FileUniverse |-> IF f = "a.pdf" THEN 2 ELSE 1]
FileTypeLists == {<<"pdf">>, <<"json">>, <<"pdf", "json">>, <<"pdf", "PDF">>}
Pipelines == {"semantic", "recursive_overlap"}
Absent == -1

\* str.lower() on the extensions that occur
Lower(s) == IF s = "PDF" THEN "pdf" ELSE IF s = "JSON" THEN "json" ELSE s

\* f.lower().endswith(f".{file_type.lower()}")
Matches(f, file_type) == Lower(Ext[f]) = Lower(file_type)

\* os.listdir(folder_path), in one fixed order
ListDir(fs) == SelectSeq(ListOrder, LAMBDA f : f \in fs)

RECURSIVE EnumerateFiles(_, _)
EnumerateFiles(fs, types) ==
    IF types = <<>> THEN <<>>
    ELSE SelectSeq(ListDir(fs), LAMBDA f : Matches(f, Head(types)))
         \o EnumerateFiles(fs, Tail(types))

\* PDFIngestor.ingest: a missing file, a non-.pdf suffix or a reader error
\* give one item with empty text; otherwise the text of the pages
ExtractKind(f, cont) ==
    IF Lower(Ext[f]) # "pdf" THEN "empty" ELSE cont[f]

\* ------------------------------------------------- per-document pipeline
SemanticSteps == <<"extract", "chunk", "build">>
RecursiveSteps == <<"extract", "chunk", "build", "upsert">>
PipelineSteps(p) == IF p = "semantic" THEN SemanticSteps ELSE RecursiveSteps
FailPoints == {"none", "extract", "chunk", "build", "upsert"}

IndexOf(seq, x) == IF \E i \in 1..Len(seq) : seq[i] = x
                   THEN CHOOSE i \in 1..Len(seq) : seq[i] = x
                   ELSE 0

\* the body of run_single_doc inside its try block: what it returns or
\* raises, the steps it executed and the nodes it handed to the store
SingleDocBody(p, kind, cc, failAt) ==
    LET steps == PipelineSteps(p)
        k == IndexOf(steps, failAt)
    IN  IF failAt = "extract"
        THEN [outcome |-> "raise", success |-> FALSE, error |-> "exception",
              steps |-> <<"extract">>, chunk_count |-> 0, written |-> 0]
        ELSE IF kind = "empty"
        THEN [outcome |-> "return", success |-> FALSE, error |-> "no content",
              steps |-> <<"extract">>, chunk_count |-> 0, written |-> 0]
        ELSE IF k > 0
        THEN [outcome |-> "raise", success |-> FALSE, error |-> "exception",
              steps |-> SubSeq(steps, 1, k), chunk_count |-> 0, written |-> 0]
        ELSE [outcome |-> "return", success |-> TRUE, error |-> "",
              steps |-> steps, chunk_count |-> cc,
              written |-> IF p = "recursive_overlap" THEN cc ELSE 0]

SingleDocReraise(b) == b

\* the except clause of run_single_doc: the exception becomes a result
SingleDocExcept(b) ==
    IF b.outcome = "raise"
    THEN [b EXCEPT !.outcome = "return", !.success = FALSE]
    ELSE b

RunSingleDoc(p, kind, cc, failAt) ==
    SingleDocExcept(SingleDocBody(p, kind, cc, failAt))

NoRun == [pipeline |-> "none", kind |-> "none", failAt |-> "none",
          outcome |-> "none", success |-> FALSE,
          error |-> "", steps |-> <<>>, chunk_count |-> 0, written |-> 0]

\* ------------------------------------------------------- ProgressTracker
NoCounters == [processed |-> Absent, successful |-> Absent, failed |-> Absent]
NoSnap == [status |-> "none", total |-> Absent, processed |-> Absent,
           successful |-> Absent, failed |-> Absent, left |-> Absent,
           error |-> ""]

\* Redis INCR: a missing key counts as 0
Incr(v) == IF v = Absent THEN 1 ELSE v + 1

IncrCountersSkipFailed(c, success) ==
    IF success
    THEN [c EXCEPT !.processed = Incr(@), !.successful = Incr(@)]
    ELSE [c EXCEPT !.processed = Incr(@)]

\* the pipelined INCRs of increment_processed
IncrCounters(c, success) ==
    IF success
    THEN [c EXCEPT !.processed = Incr(@), !.successful = Incr(@)]
    ELSE [c EXCEPT !.processed = Incr(@), !.failed = Incr(@)]

CounterKeys == {"processed", "successful", "failed"}

\* the keys an INCR creates: INCR on a missing key sets it to 1 and gives
\* it no expiry; INCR on an existing key leaves its expiry alone
CreatedByIncr(before, after) ==
    {k \in CounterKeys : before[k] = Absent /\ after[k] # Absent}

\* int(redis.get(key) or 0)
GetInt(v) == IF v = Absent THEN 0 ELSE v

Max(a, b) == IF a >= b THEN a ELSE b

InitialSnapshot(total) ==
    [status |-> "processing", total |-> total, processed |-> 0,
     successful |-> 0, failed |-> 0, left |-> total, error |-> ""]

IncrementSnapshot(total, processed, s, f) ==
    [status |-> "processing", total |-> total, processed |-> processed,
     successful |-> s, failed |-> f, left |-> Max(0, total - processed),
     error |-> ""]

FinalizeStatusChunking == "chunking"

\* the status finalize_ingestion_task passes to update_progress
FinalizeStatus == "indexing"

UpdateProgressSnapshot(total, processed, s, f, status) ==
    [status |-> status, total |-> total, processed |-> processed,
     successful |-> s, failed |-> f, left |-> total - processed,
     error |-> ""]

CompletedSnapshotTotalFloor(s, f) ==
    [status |-> "completed", total |-> Max(1, s + f), processed |-> s + f,
     successful |-> s, failed |-> f, left |-> 0, error |-> ""]

\* set_completed
CompletedSnapshot(s, f) ==
    [status |-> "completed", total |-> s + f, processed |-> s + f,
     successful |-> s, failed |-> f, left |-> 0, error |-> ""]

FailedSnapshotAsCompleted(msg) == CompletedSnapshot(0, 0)

\* set_failed
FailedSnapshot(msg) == [NoSnap EXCEPT !.status = "failed", !.error = msg]

\* ----------------------------------------------------------------- state
VARIABLES
    folderExists,
    folder,
    content,
    file_types,
    pipeline_type,
    http,
    master,
    all_files,
    counters,
    noExpiry,
    snapshot,
    statusLog,
    workers,
    finalizer,
    chroma,
    qdrant,
    lastRun,
    directCalls

\* the session store: the Redis key session:<id>, the MongoDB document,
\* the requests in flight, the migration coroutine
VARIABLES
    hot,
    cold,
    reqs,
    loop,
    mig,
    acked,
    used,
    lastRet,
    lastGet,
    gets

\* one call of RetrievalAgent.retrieve and the /retrieve route around it
VARIABLES
    store_count,
    top_k,
    use_query_enhancer,
    use_reranking,
    caller,
    queries_to_search,
    result,
    retrievePc,
    httpRetrieve

\* the pure functions (query enhancer, reranker, chunkers, node builder)
VARIABLES
    call,
    args,
    out

\* the evaluation engine: the Mongo collections, the start_evaluation
\* requests in flight, and the last answer of get_evaluation_status
VARIABLES
    evaluations,
    questions,
    qa_pairs,
    evalReqs,
    lastStatus

\* the session migration loops of SessionBackgroundTasks: self.running, the
\* session_cleanup_loop tasks, the session:* keys in Redis, the documents of
\* the chat_sessions collection
VARIABLES
    running,
    loops,
    session_keys,
    chat_sessions,
    lifecycle,
    unique_session_id

jobVars == <<folderExists, folder, content, file_types, pipeline_type, http,
             master, all_files, counters, noExpiry, snapshot, statusLog,
             workers, finalizer, chroma, qdrant, lastRun, directCalls>>

sessionVars == <<hot, cold, reqs, loop, mig, acked, used, lastRet, lastGet, gets>>

retrievalVars == <<store_count, top_k, use_query_enhancer, use_reranking,
                   caller, queries_to_search, result, retrievePc, httpRetrieve>>

\* one call of a pure function: its name, its arguments, what it returned
functionVars == <<call, args, out>>

evaluationVars == <<evaluations, questions, qa_pairs, evalReqs, lastStatus>>

migrationVars == <<running, loops, session_keys, chat_sessions, lifecycle,
                   unique_session_id>>

vars == <<jobVars, sessionVars, retrievalVars, functionVars, evaluationVars,
          migrationVars>>

inputs == <<folderExists, folder, content, file_types, pipeline_type>>

WorkerIds == 1..(2 * Cardinality(FileUniverse))

\* incs and sIncs count the INCRs the task has sent to the processed and
\* the successful key; handler says the task is in its except clause; errs
\* counts the exceptions raised inside increment_processed
IdleWorker == [pc |-> "none", pipeline |-> "none", success |-> FALSE,
               raised |-> FALSE, cnt |-> 0, s |-> 0, f |-> 0,
               incs |-> 0, sIncs |-> 0, handler |-> FALSE, errs |-> 0]

NoFinalizer == [pc |-> "none", polls |-> 0, successful_files |-> 0,
                failed_files |-> 0, handles |-> FALSE]

Log(log, status) ==
    IF log # <<>> /\ log[Len(log)] = status THEN log ELSE Append(log, status)

\* ----------------------------------------------------- the session store
FullTTL == 2
Msgs == {"A", "B"}
ReqIds == {1, 2}

NoKey == [present |-> FALSE, messages |-> <<>>, ttl |-> 0]
NoDoc == [present |-> FALSE, messages |-> <<>>]
IdleReq == [op |-> "idle", pc |-> "idle", msg |-> "", local |-> <<>>,
            expect |-> [valid |-> FALSE, messages |-> <<>>]]
NoGet == [valid |-> FALSE, messages |-> <<>>]
IdleMig == [pc |-> "idle", local |-> <<>>]

SessionsIdle ==
    /\ hot = NoKey
    /\ cold = NoDoc
    /\ reqs = [r \in ReqIds |-> IdleReq]
    /\ loop = 0
    /\ mig = IdleMig
    /\ acked = {}
    /\ used = {}
    /\ lastRet = <<>>
    /\ lastGet = NoGet
    /\ gets = 0

\* ------------------------------------------------------------ retrieval
NoResult == <<>>

RetrievalIdle ==
    /\ store_count = 0
    /\ top_k = 1
    /\ use_query_enhancer = FALSE
    /\ use_reranking = FALSE
    /\ caller = "none"
    /\ queries_to_search = 0
    /\ result = NoResult
    /\ retrievePc = "idle"
    /\ httpRetrieve = 0

\* no function called yet
FunctionsIdle ==
    /\ call = "none"
    /\ args = <<>>
    /\ out = <<>>

MaxEvalRequests == 2

EvalReqIds == 1..MaxEvalRequests

\* None for an id is 0, None for a string is ""
NoResponse == [evaluation_id |-> 0, question_group_id |-> "", status |-> "",
               reused_questions |-> FALSE]
IdleEvalReq == [pc |-> "idle", source_evaluation_id |-> 0,
                question_group_id |-> "", group |-> "", reused |-> FALSE,
                evaluation_id |-> 0, raised |-> "", response |-> NoResponse]
NoStatus == [found |-> FALSE, evaluation_id |-> 0, question_group_id |-> "",
             status |-> "", error_message |-> "",
             related_evaluation_ids |-> <<>>]

\* empty collections, no request
EvaluationIdle ==
    /\ evaluations = <<>>
    /\ questions = {}
    /\ qa_pairs = {}
    /\ evalReqs = [r \in EvalReqIds |-> IdleEvalReq]
    /\ lastStatus = NoStatus

MaxLoops == 2
MaxLifecycleCalls == 3

SessionIds == {"s1", "s2"}
LoopIds == 1..MaxLoops

\* no task of session_cleanup_loop
NoLoop == [pc |-> "none", keys |-> <<>>, key |-> "", session |-> <<>>,
           existing |-> 0, scanned |-> {}, skipped |-> {}]

\* the background tasks before start_background_tasks
MigrationIdle ==
    /\ running = FALSE
    /\ loops = [l \in LoopIds |-> NoLoop]
    /\ session_keys = [s \in SessionIds |-> NoKey]
    /\ chat_sessions = <<>>
    /\ lifecycle = 0
    /\ unique_session_id = FALSE

Init ==
    /\ MigrationIdle
    /\ SessionsIdle
    /\ FunctionsIdle
    /\ EvaluationIdle
    /\ RetrievalIdle
    /\ folderExists \in BOOLEAN
    /\ folder \in SUBSET FileUniverse
    /\ content \in [FileUniverse -> {"text", "empty"}]
    /\ \A f \in FileUniverse : f \notin folder => content[f] = "empty"
    /\ ~folderExists => folder = {}
    /\ file_types \in FileTypeLists
    /\ Len(EnumerateFiles(folder, file_types)) <= MaxTasks
    /\ pipeline_type \in Pipelines
    /\ http = "none"
    /\ master = "idle"
    /\ all_files = <<>>
    /\ counters = NoCounters
    /\ noExpiry = {}
    /\ snapshot = NoSnap
    /\ statusLog = <<>>
    /\ workers = [w \in WorkerIds |-> IdleWorker]
    /\ finalizer = NoFinalizer
    /\ chroma = 0
    /\ qdrant = 0
    /\ lastRun = NoRun
    /\ directCalls = 0

\* POST /ingestion/start_job: enqueue the master task, answer at once
StartJob ==
    /\ http = "none"
    /\ http' = "started"
    /\ master' = "queued"
    /\ UNCHANGED <<sessionVars, retrievalVars, functionVars, evaluationVars, migrationVars, inputs, all_files, counters, noExpiry, snapshot, statusLog, workers,
                   finalizer, chroma, qdrant, lastRun, directCalls>>

\* ------------------------------------------------------- the master task
MasterFailedMessage == "Master task ingestion failed to schedule: Folder not found"

\* workers and finalizer as the master's apply_async calls leave them
FanOut(n) ==
    [w \in WorkerIds |-> IF w <= n THEN [IdleWorker EXCEPT !.pc = "queued"]
                         ELSE IdleWorker]

\* ingest_documents_task
Master ==
    /\ master = "queued"
    /\ LET files == EnumerateFiles(folder, file_types)
       IN  IF ~folderExists
           THEN /\ snapshot' = FailedSnapshot(MasterFailedMessage)
                /\ statusLog' = Log(statusLog, "failed")
                /\ counters' = NoCounters
                /\ noExpiry' = {}
                /\ master' = "ignored"
                /\ UNCHANGED <<all_files, workers, finalizer>>
           ELSE IF files = <<>>
           THEN /\ snapshot' = CompletedSnapshot(0, 0)
                /\ statusLog' = Log(statusLog, "completed")
                /\ counters' = NoCounters
                /\ noExpiry' = {}
                /\ master' = "done"
                /\ all_files' = files
                /\ UNCHANGED <<workers, finalizer>>
           ELSE /\ counters' = [processed |-> 0, successful |-> 0, failed |-> 0]
                /\ noExpiry' = {}
                /\ snapshot' = InitialSnapshot(Len(files))
                /\ statusLog' = Log(statusLog, "processing")
                /\ all_files' = files
                /\ workers' = FanOut(Len(files))
                /\ finalizer' = [NoFinalizer EXCEPT !.pc = "queued"]
                /\ master' = "done"
    /\ UNCHANGED <<sessionVars, retrievalVars, functionVars, evaluationVars, migrationVars, inputs, http, chroma, qdrant, lastRun, directCalls>>

\* ------------------------------------------------------ the worker tasks
AfterRunAbort(raised) == IF raised THEN "done" ELSE "ran"

\* both the try block and the except clause of the task go on to
\* increment_processed
AfterRun(raised) == "ran"

\* the pipeline a worker task runs: the task takes the file path and the
\* job id only and calls data_preprocess_semantic_pipeline
WorkerPipeline(pt) == "semantic"

\* process_single_document_task up to the call of increment_processed:
\* the pipeline's result, or an exception caught by the task's except clause
WorkerRun(w) ==
    /\ workers[w].pc = "queued"
    /\ \E failAt \in FailPoints, raise \in BOOLEAN :
          LET file == all_files[w]
              p == WorkerPipeline(pipeline_type)
              r == RunSingleDoc(p, ExtractKind(file, content),
                                ChunkCount[file], failAt)
              raised == raise \/ r.outcome = "raise"
          IN  /\ chroma' = chroma + r.written
              /\ workers' = [workers EXCEPT ![w].pc = AfterRun(raised),
                                            ![w].pipeline = p,
                                            ![w].success = r.success /\ ~raised,
                                            ![w].raised = raised,
                                            ![w].handler = raised]
    /\ UNCHANGED <<sessionVars, retrievalVars, functionVars, evaluationVars, migrationVars, inputs, http, master, all_files, counters, noExpiry, snapshot,
                   statusLog, finalizer, qdrant, lastRun, directCalls>>

\* increment_processed, lines 54-63: the pipelined INCRs
WorkerIncr(w) ==
    /\ workers[w].pc = "ran"
    /\ counters' = IncrCounters(counters, workers[w].success)
    /\ noExpiry' = noExpiry \cup CreatedByIncr(counters, counters')
    /\ workers' = [workers EXCEPT ![w].pc = "incd",
                                  ![w].cnt = counters'.processed,
                                  ![w].incs = @ + 1,
                                  ![w].sIncs = IF workers[w].success
                                               THEN @ + 1 ELSE @]
    /\ UNCHANGED <<sessionVars, retrievalVars, functionVars, evaluationVars, migrationVars, inputs, http, master, all_files, snapshot, statusLog,
                   finalizer, chroma, qdrant, lastRun, directCalls>>

\* increment_processed, line 64
WorkerGetSuccessful(w) ==
    /\ workers[w].pc = "incd"
    /\ workers' = [workers EXCEPT ![w].pc = "gotS",
                                  ![w].s = GetInt(counters.successful)]
    /\ UNCHANGED <<sessionVars, retrievalVars, functionVars, evaluationVars, migrationVars, inputs, http, master, all_files, counters, noExpiry, snapshot,
                   statusLog, finalizer, chroma, qdrant, lastRun, directCalls>>

\* increment_processed, line 65
WorkerGetFailed(w) ==
    /\ workers[w].pc = "gotS"
    /\ workers' = [workers EXCEPT ![w].pc = "gotF",
                                  ![w].f = GetInt(counters.failed)]
    /\ UNCHANGED <<sessionVars, retrievalVars, functionVars, evaluationVars, migrationVars, inputs, http, master, all_files, counters, noExpiry, snapshot,
                   statusLog, finalizer, chroma, qdrant, lastRun, directCalls>>

\* increment_processed, lines 68-100: read the snapshot, rewrite it
WorkerWriteSnapshot(w) ==
    /\ workers[w].pc = "gotF"
    /\ workers' = [workers EXCEPT ![w].pc = "done", ![w].s = 0, ![w].f = 0]
    /\ IF snapshot = NoSnap
       THEN UNCHANGED <<snapshot, statusLog>>
       ELSE /\ snapshot' = IncrementSnapshot(
                              IF snapshot.total = Absent THEN 1 ELSE snapshot.total,
                              workers[w].cnt, workers[w].s, workers[w].f)
            /\ statusLog' = Log(statusLog, "processing")
    /\ UNCHANGED <<sessionVars, retrievalVars, functionVars, evaluationVars, migrationVars, inputs, http, master, all_files, counters, noExpiry, finalizer,
                   chroma, qdrant, lastRun, directCalls>>

RECURSIVE SumErrs(_, _)
SumErrs(ws, n) == IF n = 0 THEN 0 ELSE ws[n].errs + SumErrs(ws, n - 1)

\* an exception out of increment_processed in the try block is caught by
\* the task's except clause (lines 74-86), which calls increment_processed
\* again with success=False
AfterUpdateError(wk) ==
    [wk EXCEPT !.pc = "ran", !.success = FALSE, !.handler = TRUE,
               !.errs = @ + 1]

\* an exception out of increment_processed in the except clause leaves the
\* task: it ends in state FAILURE and its result is no dict
AfterHandlerError(wk) ==
    [wk EXCEPT !.pc = "done", !.success = FALSE, !.errs = @ + 1]

\* increment_processed, line 64: the GET that follows the INCRs of lines
\* 54-60 raises (a Redis error)
WorkerUpdateRaise(w) ==
    /\ workers[w].pc = "incd"
    /\ SumErrs(workers, Len(all_files)) < MaxUpdateErrors
    /\ workers' = [workers EXCEPT ![w] = IF workers[w].handler
                                         THEN AfterHandlerError(@)
                                         ELSE AfterUpdateError(@)]
    /\ UNCHANGED <<sessionVars, retrievalVars, functionVars, evaluationVars, migrationVars, inputs, http, master, all_files, counters, noExpiry, snapshot,
                   statusLog, finalizer, chroma, qdrant, lastRun, directCalls>>

\* -------------------------------------------------------- the finalizer
Tasks == 1..Len(all_files)

\* group_result.ready()
GroupReady == \A w \in Tasks : workers[w].pc = "done"

FinalizeNotReadyStop(fz) ==
    [fz EXCEPT !.pc = "stopped",
               !.polls = IF @ < MaxPolls THEN @ + 1 ELSE @]

\* the finalizer when the group is not ready: it re-enqueues itself
FinalizeNotReady(fz) ==
    [fz EXCEPT !.pc = "queued",
               !.polls = IF @ < MaxPolls THEN @ + 1 ELSE @]

\* line 228: an element of group_result.results counts when it is a dict
\* whose "success" is true
CountSuccessful(ws, n, handles) ==
    IF handles THEN 0
    ELSE Cardinality({w \in 1..n : ws[w].success})

FinalizeFailedMessage == "Finalize ingestion failed"

\* finalize_ingestion_task, a run that finds the group not ready
FinalizePoll ==
    /\ finalizer.pc = "queued"
    /\ ~GroupReady
    /\ finalizer.polls < MaxPolls
    /\ finalizer' = FinalizeNotReady(finalizer)
    /\ UNCHANGED <<sessionVars, retrievalVars, functionVars, evaluationVars, migrationVars, inputs, http, master, all_files, counters, noExpiry, snapshot,
                   statusLog, workers, chroma, qdrant, lastRun, directCalls>>

\* finalize_ingestion_task, a run whose try block raises (the restored
\* group is None, the result backend fails): lines 275-281
FinalizeRaise ==
    /\ finalizer.pc = "queued"
    /\ snapshot' = FailedSnapshot(FinalizeFailedMessage)
    /\ statusLog' = Log(statusLog, "failed")
    /\ counters' = NoCounters
    /\ noExpiry' = {}
    /\ finalizer' = [finalizer EXCEPT !.pc = "ignored"]
    /\ UNCHANGED <<sessionVars, retrievalVars, functionVars, evaluationVars, migrationVars, inputs, http, master, all_files, workers, chroma, qdrant,
                   lastRun, directCalls>>

\* finalize_ingestion_task, lines 223-242: collect and report "indexing"
FinalizeCollect ==
    /\ finalizer.pc = "queued"
    /\ GroupReady
    /\ \E handles \in BOOLEAN :
          LET n == Len(all_files)
              ok == CountSuccessful(workers, n, handles)
          IN  /\ finalizer' = [finalizer EXCEPT !.pc = "indexing",
                                                !.successful_files = ok,
                                                !.failed_files = n - ok,
                                                !.handles = handles]
              /\ snapshot' = UpdateProgressSnapshot(n, n, ok, n - ok,
                                                    FinalizeStatus)
              /\ statusLog' = Log(statusLog, FinalizeStatus)
    /\ UNCHANGED <<sessionVars, retrievalVars, functionVars, evaluationVars, migrationVars, inputs, http, master, all_files, counters, noExpiry, workers, chroma,
                   qdrant, lastRun, directCalls>>

\* the chunker gives every item at least one chunk: an item with empty
\* text gives one chunk with empty text
FolderChunks(f, cont) ==
    IF ExtractKind(f, cont) = "text" THEN ChunkCount[f] ELSE 1

RECURSIVE SumChunks(_, _)
SumChunks(seq, cont) ==
    IF seq = <<>> THEN 0
    ELSE FolderChunks(Head(seq), cont) + SumChunks(Tail(seq), cont)

\* run_folder and _process_and_index: every .pdf of the folder is ingested
\* again, chunked and handed to the store in one call
RunFolderNodes(fs, cont) ==
    SumChunks(SelectSeq(ListDir(fs), LAMBDA f : Lower(Ext[f]) = "pdf"), cont)

\* finalize_ingestion_task, lines 244-254
FinalizeIndex ==
    /\ finalizer.pc = "indexing"
    /\ finalizer' = [finalizer EXCEPT !.pc = "indexed"]
    /\ IF finalizer.successful_files > 0
       THEN \E raises \in BOOLEAN :
               chroma' = IF raises THEN chroma
                         ELSE chroma + RunFolderNodes(folder, content)
       ELSE UNCHANGED chroma
    /\ UNCHANGED <<sessionVars, retrievalVars, functionVars, evaluationVars, migrationVars, inputs, http, master, all_files, counters, noExpiry, snapshot,
                   statusLog, workers, qdrant, lastRun, directCalls>>

\* finalize_ingestion_task, lines 256-259: set_completed
FinalizeComplete ==
    /\ finalizer.pc = "indexed"
    /\ snapshot' = CompletedSnapshot(finalizer.successful_files,
                                     finalizer.failed_files)
    /\ statusLog' = Log(statusLog, "completed")
    /\ counters' = NoCounters
    /\ noExpiry' = {}
    /\ finalizer' = [finalizer EXCEPT !.pc = "done"]
    /\ UNCHANGED <<sessionVars, retrievalVars, functionVars, evaluationVars, migrationVars, inputs, http, master, all_files, workers, chroma, qdrant,
                   lastRun, directCalls>>

\* ------------------------ run_single_doc of either pipeline, called on one
\* file once the job is over
JobOver ==
    \/ master \in {"done", "ignored"} /\ finalizer.pc = "none"
    \/ finalizer.pc \in {"done", "ignored"} /\ GroupReady

DirectRunSingleDoc ==
    /\ JobOver
    /\ directCalls < MaxDirectCalls
    /\ \E p \in Pipelines, file \in FileUniverse, failAt \in FailPoints :
          LET kind == ExtractKind(file, content)
              r == RunSingleDoc(p, kind, ChunkCount[file], failAt)
          IN  /\ lastRun' = [pipeline |-> p, kind |-> kind, failAt |-> failAt] @@ r
              /\ IF p = "semantic"
                 THEN chroma' = chroma + r.written /\ UNCHANGED qdrant
                 ELSE qdrant' = qdrant + r.written /\ UNCHANGED chroma
    /\ directCalls' = directCalls + 1
    /\ UNCHANGED <<sessionVars, retrievalVars, functionVars, evaluationVars, migrationVars, inputs, http, master, all_files, counters, noExpiry, snapshot,
                   statusLog, workers, finalizer>>

Next ==
    \/ StartJob
    \/ Master
    \/ \E w \in WorkerIds : WorkerRun(w)
    \/ \E w \in WorkerIds : WorkerIncr(w)
    \/ \E w \in WorkerIds : WorkerGetSuccessful(w)
    \/ \E w \in WorkerIds : WorkerGetFailed(w)
    \/ \E w \in WorkerIds : WorkerWriteSnapshot(w)
    \/ \E w \in WorkerIds : WorkerUpdateRaise(w)
    \/ FinalizePoll
    \/ FinalizeRaise
    \/ FinalizeCollect
    \/ FinalizeIndex
    \/ FinalizeComplete
    \/ DirectRunSingleDoc

Spec == Init /\ [][Next]_vars

\* the broker delivers every enqueued task and a started task runs on
Fairness ==
    /\ WF_vars(Master)
    /\ \A w \in WorkerIds :
          /\ WF_vars(WorkerRun(w))
          /\ WF_vars(WorkerIncr(w))
          /\ WF_vars(WorkerGetSuccessful(w))
          /\ WF_vars(WorkerGetFailed(w))
          /\ WF_vars(WorkerWriteSnapshot(w))
    /\ WF_vars(FinalizeCollect)
    /\ WF_vars(FinalizeIndex)
    /\ WF_vars(FinalizeComplete)

FairSpec == Init /\ [][Next]_vars /\ Fairness

TypeOK ==
    /\ master \in {"idle", "queued", "done", "ignored"}
    /\ http \in {"none", "started"}
    /\ snapshot.status \in {"none", "processing", "indexing", "completed", "failed"}
    /\ chroma \in Nat
    /\ qdrant \in Nat

\* the ingestion job before any request
JobIdle ==
    /\ folderExists = FALSE
    /\ folder = {}
    /\ content = [f \in FileUniverse |-> "empty"]
    /\ file_types = <<"pdf">>
    /\ pipeline_type = "semantic"
    /\ http = "none"
    /\ master = "idle"
    /\ all_files = <<>>
    /\ counters = NoCounters
    /\ noExpiry = {}
    /\ snapshot = NoSnap
    /\ statusLog = <<>>
    /\ workers = [w \in WorkerIds |-> IdleWorker]
    /\ finalizer = NoFinalizer
    /\ chroma = 0
    /\ qdrant = 0
    /\ lastRun = NoRun
    /\ directCalls = 0

\* =========================================================== SessionStore
\* One session id.  The API process runs one event loop: a coroutine keeps
\* the loop between two awaits that really suspend (the MongoDB calls); the
\* Redis calls are synchronous.  The key's TTL runs down at any time.

\* RedisClient.set_session: SETEX with the full TTL
SetSession(messages) ==
    [present |-> TRUE, messages |-> messages, ttl |-> FullTTL]

\* RedisClient.extend_session_ttl: EXPIRE does nothing to a missing key and
\* its answer is not looked at
ExtendSessionTtl(h) == IF h.present THEN [h EXCEPT !.ttl = FullTTL] ELSE h

\* Session.add_message
AddMessage(messages, m) == Append(messages, m)

\* get_or_create_session, line 24: the GET of session:<id>.  A hit goes on
\* synchronously to line 27, a miss awaits the MongoDB lookup.
Lookup(r, op, m) ==
    /\ reqs' = [reqs EXCEPT ![r] =
                  [op |-> op, msg |-> m,
                   pc |-> IF hot.present THEN "hit" ELSE "find",
                   local |-> IF hot.present THEN hot.messages ELSE <<>>,
                   expect |-> IF op = "get" THEN lastGet ELSE NoGet]]
    /\ loop' = IF hot.present THEN r ELSE 0

\* GET /sessions/{id} and the first line of /chat: get_or_create_session
CallGet(r) ==
    /\ loop = 0
    /\ reqs[r].op = "idle"
    /\ gets < MaxGets
    /\ gets' = gets + 1
    /\ Lookup(r, "get", "")
    /\ UNCHANGED <<jobVars, retrievalVars, functionVars, evaluationVars, migrationVars, hot, cold, mig, acked, used,
                   lastRet, lastGet>>

\* add_message_to_session, line 114
CallAppend(r) ==
    /\ loop = 0
    /\ reqs[r].op = "idle"
    /\ \E m \in Msgs \ used :
          /\ used' = used \cup {m}
          /\ Lookup(r, "append", m)
    /\ UNCHANGED <<jobVars, retrievalVars, functionVars, evaluationVars, migrationVars, hot, cold, mig, acked, lastRet,
                   lastGet, gets>>

\* the rest of the call once get_or_create_session has its session: return
\* it, or (add_message_to_session, lines 116-127) append the message, SETEX
\* the whole session and return it
Finish(r, h, messages) ==
    /\ reqs' = [q \in ReqIds |->
                  IF q = r THEN IdleReq
                  ELSE IF reqs[r].op = "append"
                       THEN [reqs[q] EXCEPT !.expect = NoGet]
                       ELSE reqs[q]]
    /\ loop' = 0
    /\ IF reqs[r].op = "get"
       THEN /\ hot' = h
            /\ lastRet' = messages
            /\ lastGet' = [valid |-> TRUE, messages |-> messages]
            /\ UNCHANGED acked
       ELSE /\ hot' = SetSession(AddMessage(messages, reqs[r].msg))
            /\ lastRet' = AddMessage(messages, reqs[r].msg)
            /\ lastGet' = NoGet
            /\ acked' = acked \cup {reqs[r].msg}

\* get_or_create_session, lines 25-28: the session was in Redis
ExtendAndReturn(r) ==
    /\ reqs[r].pc = "hit"
    /\ loop = r
    /\ Finish(r, ExtendSessionTtl(hot), reqs[r].local)
    /\ UNCHANGED <<jobVars, retrievalVars, functionVars, evaluationVars, migrationVars, cold, mig, used, gets>>

\* get_session_from_mongodb: the find_one the coroutine awaits; an
\* exception is logged and answered with None (lines 70-72), like a miss
MongoFind(r) ==
    /\ reqs[r].pc = "find"
    /\ \E raises \in BOOLEAN :
          reqs' = [reqs EXCEPT ![r].pc = "found",
                               ![r].local = IF cold.present /\ ~raises
                                            THEN cold.messages ELSE <<>>]
    /\ UNCHANGED <<jobVars, retrievalVars, functionVars, evaluationVars, migrationVars, hot, cold, loop, mig, acked, used,
                   lastRet, lastGet, gets>>

\* get_or_create_session, lines 32-44: the coroutine resumes, writes the
\* session found in MongoDB, or a new empty one, to Redis and returns it
SaveAndReturn(r) ==
    /\ reqs[r].pc = "found"
    /\ loop = 0
    /\ Finish(r, SetSession(reqs[r].local), reqs[r].local)
    /\ UNCHANGED <<jobVars, retrievalVars, functionVars, evaluationVars, migrationVars, cold, mig, used, gets>>

\* cleanup_expired_sessions, lines 63-75: SCAN and GET, then await
\* save_session_to_mongodb
MigrateRead ==
    /\ mig.pc = "idle"
    /\ loop = 0
    /\ hot.present
    /\ mig' = [pc |-> "saving", local |-> hot.messages]
    /\ UNCHANGED <<jobVars, retrievalVars, functionVars, evaluationVars, migrationVars, hot, cold, reqs, loop, acked, used,
                   lastRet, lastGet, gets>>

\* save_session_to_mongodb: update or insert the document; an error is
\* logged and the session skipped
MigrateSave ==
    /\ mig.pc = "saving"
    /\ mig' = IdleMig
    /\ \E ok \in BOOLEAN :
          cold' = IF ok THEN [present |-> TRUE, messages |-> mig.local]
                  ELSE cold
    /\ UNCHANGED <<jobVars, retrievalVars, functionVars, evaluationVars, migrationVars, hot, reqs, loop, acked, used,
                   lastRet, lastGet, gets>>

\* time passes: the key's TTL runs down and Redis drops the key at 0; the
\* stretch between the GET and the EXPIRE of one call is short, in it the
\* TTL can only run out
Tick ==
    /\ hot.present
    /\ loop # 0 => hot.ttl = 1
    /\ hot' = IF hot.ttl = 1 THEN NoKey ELSE [hot EXCEPT !.ttl = @ - 1]
    /\ UNCHANGED <<jobVars, retrievalVars, functionVars, evaluationVars, migrationVars, cold, reqs, loop, mig, acked, used,
                   lastRet, lastGet, gets>>

SessionInit ==
    /\ JobIdle /\ SessionsIdle /\ RetrievalIdle /\ FunctionsIdle
    /\ EvaluationIdle /\ MigrationIdle

SessionNext ==
    \/ \E r \in ReqIds : CallGet(r)
    \/ \E r \in ReqIds : CallAppend(r)
    \/ \E r \in ReqIds : ExtendAndReturn(r)
    \/ \E r \in ReqIds : MongoFind(r)
    \/ \E r \in ReqIds : SaveAndReturn(r)
    \/ MigrateRead
    \/ MigrateSave
    \/ Tick

SessionSpec == SessionInit /\ [][SessionNext]_vars

\* ========================================================= RetrievalAgent
MaxStore == 3
MaxTopK == 3
Null == "null"
Missing == "missing"
EnhancedCounts == {1, 3, 5}
RerankOutcomes == {"ranked", "invalid", "error"}

Min(a, b) == IF a <= b THEN a ELSE b

SourceOf(i) == IF i % 2 = 1 THEN "a.pdf" ELSE "b.PDF"

\* the values retrieve hands back: a str, a list of str, or a result dict
StrValue(texts) ==
    [kind |-> "str", val |-> texts, text |-> 0, source |-> "",
     score |-> Missing, enhanced |-> Missing, reranked |-> Missing]
ListValue(sources) ==
    [kind |-> "list", val |-> sources, text |-> 0, source |-> "",
     score |-> Missing, enhanced |-> Missing, reranked |-> Missing]
DictValue(text, source, enhanced, reranked) ==
    [kind |-> "dict", val |-> <<>>, text |-> text, source |-> source,
     score |-> Null, enhanced |-> enhanced, reranked |-> reranked]

BoolStr(b) == IF b THEN "true" ELSE "false"

\* SimpleQdrantRetriever.retrieve: the k nearest nodes, returned as the pair
\* (their texts joined into one string, the list of their sources)
RetrieverRetrieve(n, k) ==
    LET nodes == [i \in 1..Min(k, n) |-> i]
    IN  <<StrValue(nodes), ListValue({SourceOf(i) : i \in 1..Min(k, n)})>>

DirectPathIgnoresReranking(enh, rerank) == ~enh

\* RetrievalAgent.retrieve, line 56
DirectPath(enh, rerank) == ~enh /\ ~rerank

\* lines 61-70: the queries searched
QueriesToSearch(enh, nEnhanced) == IF enh THEN Min(nEnhanced, 3) ELSE 1

PerQueryKFloorTwo(k, q, rerank) ==
    IF rerank THEN Max(4, (k \div q) * 2) ELSE Max(2, k \div q)

\* line 82
PerQueryK(k, q, rerank) ==
    Max(4, (k \div q) * (IF rerank THEN 2 ELSE 1))

SeenTextNever(acc, text) == FALSE

\* line 88: doc["text"] in seen_texts, the texts of the documents pooled
\* so far
SeenText(acc, text) == \E i \in 1..Len(acc) : acc[i].text = text

\* lines 87-94: doc["text"] of each element of what the retriever returned;
\* an element that is not a dict raises TypeError, which ends this query
RECURSIVE CollectDocs(_, _)
CollectDocs(res, acc) ==
    IF res = <<>> THEN acc
    ELSE IF Head(res).kind # "dict" THEN acc
    ELSE IF SeenText(acc, Head(res).text)
         THEN CollectDocs(Tail(res), acc)
         ELSE CollectDocs(Tail(res), Append(acc, Head(res)))

\* lines 79-94, over all the queries
RECURSIVE AllDocuments(_, _, _, _)
AllDocuments(n, perK, q, acc) ==
    IF q = 0 THEN acc
    ELSE AllDocuments(n, perK, q - 1, CollectDocs(RetrieverRetrieve(n, perK), acc))

Reverse(seq) == [i \in 1..Len(seq) |-> seq[Len(seq) + 1 - i]]
Take(seq, k) == SubSeq(seq, 1, Min(k, Len(seq)))

\* RerankingAgent.rerank: at most 20 documents; ranked by the LLM's scores,
\* or in the input order when the answer is unusable or the call fails
Rerank(docs, k, outcome) ==
    LET to_rank == Take(docs, 20)
    IN  IF outcome = "ranked" THEN Take(Reverse(to_rank), k)
        ELSE Take(to_rank, k)

\* RetrievalAgent.retrieve
AgentRetrieve(n, k, enh, rerank, nEnhanced, outcome) ==
    IF DirectPath(enh, rerank) THEN RetrieverRetrieve(n, k)
    ELSE LET q == QueriesToSearch(enh, nEnhanced)
             all_documents == AllDocuments(n, PerQueryK(k, q, rerank), q, <<>>)
         IN  IF all_documents = <<>> THEN <<>>
             ELSE IF rerank
             THEN LET ranked == Take(Rerank(all_documents, k, outcome), k)
                  IN  [i \in 1..Len(ranked) |->
                         DictValue(ranked[i].text, ranked[i].source,
                                   BoolStr(enh), "true")]
             ELSE LET results == Take(all_documents, k)
                  IN  [i \in 1..Len(results) |->
                         DictValue(results[i].text, results[i].source,
                                   BoolStr(enh), "false")]

\* the store and the request
RetrievalInit ==
    /\ MigrationIdle
    /\ JobIdle
    /\ SessionsIdle
    /\ FunctionsIdle
    /\ EvaluationIdle
    /\ store_count \in 0..MaxStore
    /\ top_k \in 1..MaxTopK
    /\ use_query_enhancer \in BOOLEAN
    /\ use_reranking \in BOOLEAN
    /\ caller = "none"
    /\ queries_to_search = 0
    /\ result = NoResult
    /\ retrievePc = "idle"
    /\ httpRetrieve = 0

\* POST /retrieve with an empty collection: is_available is false, the
\* route answers 503 and does not call retrieve
RouteUnavailable ==
    /\ retrievePc = "idle"
    /\ store_count = 0
    /\ caller' = "router"
    /\ retrievePc' = "answered"
    /\ httpRetrieve' = 503
    /\ UNCHANGED <<jobVars, sessionVars, functionVars, evaluationVars, migrationVars, store_count, top_k,
                   use_query_enhancer, use_reranking, queries_to_search, result>>

\* RetrievalAgent.retrieve called by the /retrieve route or by the
\* evaluator
RetrieveCall ==
    /\ retrievePc = "idle"
    /\ \E c \in {"router", "evaluator"}, nEnhanced \in EnhancedCounts,
          outcome \in RerankOutcomes :
          /\ c = "router" => store_count > 0
          /\ caller' = c
          /\ queries_to_search' =
                IF DirectPath(use_query_enhancer, use_reranking) THEN 1
                ELSE QueriesToSearch(use_query_enhancer, nEnhanced)
          /\ result' = AgentRetrieve(store_count, top_k, use_query_enhancer,
                                     use_reranking, nEnhanced, outcome)
    /\ retrievePc' = "returned"
    /\ UNCHANGED <<jobVars, sessionVars, functionVars, evaluationVars, migrationVars, store_count, top_k,
                   use_query_enhancer, use_reranking, httpRetrieve>>

\* retrieve_documents, lines 138-160: doc["text"], doc["source"],
\* doc["score"], doc["metadata"] of every element; an exception gives 500
RouteConvert ==
    /\ retrievePc = "returned"
    /\ caller = "router"
    /\ retrievePc' = "answered"
    /\ httpRetrieve' = IF \A i \in 1..Len(result) : result[i].kind = "dict"
                       THEN 200 ELSE 500
    /\ UNCHANGED <<jobVars, sessionVars, functionVars, evaluationVars, migrationVars, store_count, top_k,
                   use_query_enhancer, use_reranking, caller,
                   queries_to_search, result>>

RetrievalNext ==
    \/ RouteUnavailable
    \/ RetrieveCall
    \/ RouteConvert

RetrievalSpec == RetrievalInit /\ [][RetrievalNext]_vars


\* ======================================================= pure functions
\* Each behaviour of FunctionsSpec is one call of one function on inputs
\* drawn from the bounded sets below.
MaxQueries == 6

SeqsOf(S, n) == UNION {[1..k -> S] : k \in 0..n}

\* ------------------------------------------------ QueryEnhancerAgent
OriginalQuery == "q"
QueryTexts == {"q", "v"}

\* what llm.call does: raises, answers with something that has no list
\* enhanced_queries, or answers with a list of queries
EnhanceResponses ==
    {[kind |-> "raise", enhanced_queries |-> <<>>],
     [kind |-> "invalid", enhanced_queries |-> <<>>]}
    \cup {[kind |-> "list", enhanced_queries |-> l] :
             l \in SeqsOf(QueryTexts, MaxQueries)}

EnhanceLimit == 5
SearchLimit == 3

\* enhance_query, lines 53-76
EnhanceQuery(original_query, response) ==
    IF response.kind = "raise"
    THEN [raised |-> FALSE, queries |-> <<original_query>>]
    ELSE IF response.kind = "invalid"
    THEN [raised |-> FALSE, queries |-> <<original_query>>]
    ELSE LET enhanced_queries == response.enhanced_queries
             present == \E i \in 1..Len(enhanced_queries) :
                            enhanced_queries[i] = original_query
             inserted == IF present THEN enhanced_queries
                         ELSE <<original_query>> \o enhanced_queries
         IN  [raised |-> FALSE, queries |-> Take(inserted, EnhanceLimit)]

\* RetrievalAgent.retrieve, lines 61-70, with use_query_enhancer
EnhancedQueriesToSearch(question, enhanced) ==
    IF enhanced.raised THEN <<question>>
    ELSE Take(enhanced.queries, SearchLimit)

CallEnhanceQuery ==
    /\ call = "none"
    /\ \E response \in EnhanceResponses :
          LET enhanced == EnhanceQuery(OriginalQuery, response)
          IN  /\ call' = "enhance_query"
              /\ args' = [original_query |-> OriginalQuery,
                          response |-> response]
              /\ out' = [enhanced |-> enhanced,
                         queries_to_search |->
                             EnhancedQueriesToSearch(OriginalQuery, enhanced)]
    /\ UNCHANGED <<jobVars, sessionVars, retrievalVars, evaluationVars, migrationVars>>


\* ---------------------------------------------------- RerankingAgent
MaxDocs == 21
MaxRanked == 3

RerankCap == 20
DocCounts == {0, 1, 2, 3, RerankCap, MaxDocs}

\* A text is the sequence of its paragraphs, the pieces between blank
\* lines; paragraph j of document i is <<i, j>>. Document `blank` has a
\* blank line inside, every other document is one paragraph.
DocText(i, blank) ==
    IF i = blank THEN <<<<i, 1>>, <<i, 2>>>> ELSE <<<<i, 1>>>>

Documents(n, blank) == [i \in 1..n |-> DocText(i, blank)]

\* the source of document i
Sources(n) == [i \in 1..n |-> i]

\* "\n\n".join(parts)
RECURSIVE JoinBlank(_)
JoinBlank(parts) ==
    IF parts = <<>> THEN <<>>
    ELSE Head(parts) \o JoinBlank(Tail(parts))

\* [doc.strip() for doc in final_context.split('\n\n') if doc.strip()]
SplitBlank(context) == [i \in 1..Len(context) |-> <<context[i]>>]

\* the LLM's ranked_documents: 0-based indices, some out of range
RankIndices == {-1, 0, 1, RerankCap}
RankScores == {1, 2}
RankedDocuments ==
    SeqsOf([index : RankIndices, relevance_score : RankScores], MaxRanked)

RerankResponses ==
    {[kind |-> "raise", ranked_documents |-> <<>>],
     [kind |-> "invalid", ranked_documents |-> <<>>]}
    \cup {[kind |-> "list", ranked_documents |-> l] : l \in RankedDocuments}

\* list.sort(key=relevance_score, reverse=True): stable, highest first
RECURSIVE InsertByScore(_, _)
InsertByScore(x, sorted) ==
    IF sorted = <<>> THEN <<x>>
    ELSE IF Head(sorted).relevance_score >= x.relevance_score
         THEN <<Head(sorted)>> \o InsertByScore(x, Tail(sorted))
         ELSE <<x>> \o sorted

RECURSIVE SortByScore(_)
SortByScore(l) ==
    IF l = <<>> THEN <<>>
    ELSE InsertByScore(l[Len(l)], SortByScore(SubSeq(l, 1, Len(l) - 1)))

\* lines 81-85: the entries whose index is in range, in order
RECURSIVE ValidIndices(_, _)
ValidIndices(top_ranked, n) ==
    IF top_ranked = <<>> THEN <<>>
    ELSE LET idx == Head(top_ranked).index
             rest == ValidIndices(Tail(top_ranked), n)
         IN  IF 0 <= idx /\ idx < n THEN <<idx + 1>> \o rest ELSE rest

\* rerank, lines 50-98
RerankDocuments(documents, sources, k, response) ==
    IF documents = <<>> THEN [context |-> <<>>, sources |-> <<>>]
    ELSE LET max_docs_to_rerank == Min(Len(documents), RerankCap)
             documents_to_rank == SubSeq(documents, 1, max_docs_to_rerank)
             sources_to_rank == SubSeq(sources, 1, max_docs_to_rerank)
             fallback == [context |-> JoinBlank(Take(documents_to_rank, k)),
                          sources |-> Take(sources_to_rank, k)]
         IN  IF response.kind # "list" THEN fallback
             ELSE LET top_ranked == Take(SortByScore(response.ranked_documents),
                                         k)
                      picked == ValidIndices(top_ranked, max_docs_to_rerank)
                  IN  [context |-> JoinBlank([i \in 1..Len(picked) |->
                                                documents_to_rank[picked[i]]]),
                       sources |-> [i \in 1..Len(picked) |->
                                       sources_to_rank[picked[i]]]]

CallRerank ==
    /\ call = "none"
    /\ \E n \in DocCounts, k \in 1..MaxTopK, response \in RerankResponses :
       \E blank \in 0..Min(n, 1) :
          /\ call' = "rerank"
          /\ args' = [n |-> n, blank |-> blank, top_k |-> k,
                      response |-> response]
          /\ out' = RerankDocuments(Documents(n, blank), Sources(n), k,
                                    response)
    /\ UNCHANGED <<jobVars, sessionVars, retrievalVars, evaluationVars, migrationVars>>

\* ------------------------------------------- RecursiveOverlapChunker
\* A str is the sequence of its characters; "LF" is the newline.
MaxTextLen == 5
MaxChunkSize == 4

Chars == {"a", ".", " ", "LF"}
Whitespace == {" ", "LF"}
Texts == SeqsOf(Chars, MaxTextLen)

\* self.separators
Separators == << <<"LF", "LF">>, <<"LF">>, <<".", " ">>, <<" ">> >>

\* str.strip()
RECURSIVE LStrip(_)
LStrip(s) ==
    IF s # <<>> /\ Head(s) \in Whitespace THEN LStrip(Tail(s)) ELSE s

RECURSIVE RStrip(_)
RStrip(s) ==
    IF s # <<>> /\ s[Len(s)] \in Whitespace
    THEN RStrip(SubSeq(s, 1, Len(s) - 1))
    ELSE s

Strip(s) == RStrip(LStrip(s))

StartsWith(s, prefix) ==
    Len(prefix) <= Len(s) /\ SubSeq(s, 1, Len(prefix)) = prefix

EndsWith(s, suffix) ==
    Len(suffix) <= Len(s)
    /\ SubSeq(s, Len(s) - Len(suffix) + 1, Len(s)) = suffix

\* str.split(separator): the pieces between the occurrences of the
\* separator, found from the left; empty pieces are kept
RECURSIVE SplitAt(_, _, _)
SplitAt(s, separator, piece) ==
    IF s = <<>> THEN <<piece>>
    ELSE IF StartsWith(s, separator)
         THEN <<piece>> \o SplitAt(SubSeq(s, Len(separator) + 1, Len(s)),
                                   separator, <<>>)
         ELSE SplitAt(Tail(s), separator, Append(piece, Head(s)))

Split(s, separator) == SplitAt(s, separator, <<>>)

\* lines 52-57: cut every chunk_size characters, strip, drop the empty
RECURSIVE HardCut(_, _)
HardCut(fragment, chunk_size) ==
    IF fragment = <<>> THEN <<>>
    ELSE LET chunk == Strip(SubSeq(fragment, 1,
                                   Min(chunk_size, Len(fragment))))
             rest == SubSeq(fragment, Min(chunk_size, Len(fragment)) + 1,
                            Len(fragment))
         IN  (IF chunk # <<>> THEN <<chunk>> ELSE <<>>)
             \o HardCut(rest, chunk_size)

RECURSIVE SplitFragment(_, _, _)
RECURSIVE PackPieces(_, _, _, _, _)

\* _split_fragment, lines 65-86: the loop over the pieces; idx counts
\* from 1
PackPieces(pieces, idx, buffer, level, chunk_size) ==
    LET separator == Separators[level + 1]
    IN  IF idx > Len(pieces)
        THEN IF buffer = <<>> THEN <<>>
             ELSE SplitFragment(
                      IF EndsWith(buffer, separator)
                      THEN SubSeq(buffer, 1, Len(buffer) - Len(separator))
                      ELSE buffer,
                      level + 1, chunk_size)
        ELSE LET piece == Strip(pieces[idx])
                 candidate == IF buffer = <<>> THEN piece
                              ELSE buffer \o separator \o piece
                 long == Len(candidate) > chunk_size
                 flushed == IF long /\ buffer # <<>>
                            THEN SplitFragment(buffer, level + 1, chunk_size)
                            ELSE IF long
                            THEN SplitFragment(piece, level + 1, chunk_size)
                            ELSE <<>>
                 kept == IF long /\ buffer # <<>> THEN piece
                         ELSE IF long THEN <<>>
                         ELSE candidate
                 next == IF kept # <<>> /\ idx < Len(pieces)
                         THEN kept \o separator
                         ELSE kept
             IN  IF piece = <<>>
                 THEN PackPieces(pieces, idx + 1, buffer, level, chunk_size)
                 ELSE flushed
                      \o PackPieces(pieces, idx + 1, next, level, chunk_size)

\* _split_fragment, lines 44-63
SplitFragment(text, level, chunk_size) ==
    LET fragment == Strip(text)
    IN  IF fragment = <<>> THEN <<>>
        ELSE IF Len(fragment) <= chunk_size THEN <<fragment>>
        ELSE IF level >= Len(Separators) THEN HardCut(fragment, chunk_size)
        ELSE LET pieces == Split(fragment, Separators[level + 1])
             IN  IF Len(pieces) = 1
                 THEN SplitFragment(fragment, level + 1, chunk_size)
                 ELSE PackPieces(pieces, 1, <<>>, level, chunk_size)

\* [chunk for chunk in chunks if chunk]
RECURSIVE NonEmpty(_)
NonEmpty(chunks) ==
    IF chunks = <<>> THEN <<>>
    ELSE (IF Head(chunks) # <<>> THEN <<Head(chunks)>> ELSE <<>>)
         \o NonEmpty(Tail(chunks))

\* _split_text
SplitText(text, chunk_size) ==
    NonEmpty(SplitFragment(Strip(text), 0, chunk_size))

\* s[-n:]
LastChars(s, n) == SubSeq(s, Len(s) - Min(n, Len(s)) + 1, Len(s))

OverlapCombineUncut(prev, chunk, chunk_overlap, chunk_size) ==
    LastChars(prev, chunk_overlap) \o chunk

\* _apply_overlap, lines 101-104
OverlapCombine(prev, chunk, chunk_overlap, chunk_size) ==
    LET combined == LastChars(prev, chunk_overlap) \o chunk
    IN  IF Len(combined) > chunk_size
        THEN LastChars(combined, chunk_size)
        ELSE combined

\* _apply_overlap, lines 94-106: the loop
RECURSIVE OverlapLoop(_, _, _, _)
OverlapLoop(chunks, prev, chunk_overlap, chunk_size) ==
    IF chunks = <<>> THEN <<>>
    ELSE LET chunk == Strip(Head(chunks))
         IN  IF chunk = <<>>
             THEN OverlapLoop(Tail(chunks), prev, chunk_overlap, chunk_size)
             ELSE <<IF prev = <<>> THEN chunk
                    ELSE OverlapCombine(prev, chunk, chunk_overlap,
                                        chunk_size)>>
                  \o OverlapLoop(Tail(chunks), chunk, chunk_overlap,
                                 chunk_size)

\* _apply_overlap, lines 88-107
ApplyOverlap(chunks, chunk_overlap, chunk_size) ==
    IF chunk_overlap <= 0 \/ Len(chunks) <= 1 THEN chunks
    ELSE OverlapLoop(chunks, <<>>, chunk_overlap, chunk_size)

\* ChunkItem(source, len_characters=len(ch), text=ch)
ChunkItem(source, ch) ==
    [source |-> source, len_characters |-> Len(ch), text |-> ch]

\* RecursiveOverlapChunker.chunk, lines 26-37, for one item
RecursiveChunk(source, text, chunk_size, chunk_overlap) ==
    LET base_chunks == SplitText(text, chunk_size)
        overlapped_chunks == NonEmpty(ApplyOverlap(base_chunks, chunk_overlap,
                                                   chunk_size))
    IN  [base_chunks |-> base_chunks,
         chunks |-> [i \in 1..Len(overlapped_chunks) |->
                        ChunkItem(source, overlapped_chunks[i])]]

\* chunk_size is positive and chunk_overlap = int(chunk_size * ratio) with
\* 0 <= ratio < 1 (lines 17-24)
CallRecursiveChunk ==
    /\ call = "none"
    /\ \E text \in Texts, chunk_size \in 1..MaxChunkSize :
       \E chunk_overlap \in 0..(chunk_size - 1) :
          /\ call' = "recursive_chunk"
          /\ args' = [text |-> text, chunk_size |-> chunk_size,
                      chunk_overlap |-> chunk_overlap]
          /\ out' = RecursiveChunk("a.pdf", text, chunk_size, chunk_overlap)
    /\ UNCHANGED <<jobVars, sessionVars, retrievalVars, evaluationVars, migrationVars>>

\* ----------------------------------------------------- SemanticChunker
MaxSentences == 3

\* " ".join(parts)
RECURSIVE JoinSpace(_)
JoinSpace(parts) ==
    IF parts = <<>> THEN <<>>
    ELSE IF Len(parts) = 1 THEN Head(parts)
    ELSE Head(parts) \o <<" ">> \o JoinSpace(Tail(parts))

\* the propositions the T5 model gives for a text: each one sentence; none
\* when its output is not a JSON list
Proposition == <<"a", ".">>
PropositionLists == SeqsOf({Proposition}, MaxSentences)

\* T5Propositioner.propose, lines 40-84, for one item
Propose(source, text, props) ==
    IF text = <<>> THEN ChunkItem(source, <<>>)
    ELSE ChunkItem(source, JoinSpace(props))

\* _langchain_split_to_sentences: nothing for an empty text or when spaCy
\* raises; otherwise spaCy's sentences, which are taken to be the
\* propositions again
SplitToSentences(text, spacy_raises) ==
    IF text = <<>> THEN <<>>
    ELSE IF spacy_raises THEN <<>>
    ELSE Split(text, <<" ">>)

\* break_indices (line 71): the 0-based indices of the distances above the
\* percentile threshold, so never all of them
BreakIndexSets(n) ==
    IF n <= 1 THEN {{}}
    ELSE {b \in SUBSET (0..(n - 2)) : b # 0..(n - 2)}

\* _slice_by_breakpoints, lines 153-169; start_idx counts from 0
RECURSIVE SliceByBreakpoints(_, _, _, _)
SliceByBreakpoints(sentences, break_indices, idx, start_idx) ==
    IF idx > Len(sentences) - 2
    THEN IF start_idx < Len(sentences)
         THEN <<JoinSpace(SubSeq(sentences, start_idx + 1, Len(sentences)))>>
         ELSE <<>>
    ELSE IF idx \in break_indices
         THEN <<JoinSpace(SubSeq(sentences, start_idx + 1, idx + 2))>>
              \o SliceByBreakpoints(sentences, break_indices, idx + 1, idx + 2)
         ELSE SliceByBreakpoints(sentences, break_indices, idx + 1, start_idx)

\* SemanticChunker.chunk, lines 50-78, for one item
SemanticChunk(source, text, props, spacy_raises, break_indices) ==
    LET proposition_text == Propose(source, text, props).text
        sentences == SplitToSentences(proposition_text, spacy_raises)
    IN  IF Len(sentences) <= 1
        THEN <<ChunkItem(source, IF sentences # <<>> THEN sentences[1]
                                 ELSE proposition_text)>>
        ELSE LET chunks_for_doc ==
                     SliceByBreakpoints(sentences, break_indices, 0, 0)
             IN  [i \in 1..Len(chunks_for_doc) |->
                     ChunkItem(source, chunks_for_doc[i])]

CallSemanticChunk ==
    /\ call = "none"
    /\ \E text \in {<<>>, <<"a">>}, props \in PropositionLists,
          spacy_raises \in BOOLEAN :
       \E break_indices \in BreakIndexSets(Len(props)) :
          /\ call' = "semantic_chunk"
          /\ args' = [text |-> text, props |-> props,
                      spacy_raises |-> spacy_raises,
                      break_indices |-> break_indices]
          /\ out' = [chunks |-> SemanticChunk("a.pdf", text, props,
                                              spacy_raises, break_indices)]
    /\ UNCHANGED <<jobVars, sessionVars, retrievalVars, evaluationVars, migrationVars>>

\* ----------------------------------------------------------- NodeBuilder
MaxChunks == 3

\* chunk i of a list: its source is chosen, its text is i characters long
ChunkAt(source, i) == ChunkItem(source, [j \in 1..i |-> "a"])
ChunkLists ==
    {[i \in 1..Len(srcs) |-> ChunkAt(srcs[i], i)] :
        srcs \in SeqsOf(FileUniverse, MaxChunks)}

\* source -> full text; "" also stands for a source without an entry
ParentTexts == [FileUniverse -> {<<>>, <<"a">>}]

\* uuid.uuid4(): the n-th call of a build returns n; no two calls return
\* the same value

\* lines 27-33: the sources in the order they are first seen
RECURSIVE SourcesSeen(_, _)
SourcesSeen(chunks, seen) ==
    IF chunks = <<>> THEN seen
    ELSE SourcesSeen(Tail(chunks),
                     IF \E i \in 1..Len(seen) : seen[i] = Head(chunks).source
                     THEN seen
                     ELSE Append(seen, Head(chunks).source))

\* source_to_doc_id[source]: the uuid4 call made when the source was first
\* seen (line 32)
DocId(seen, source) == CHOOSE i \in 1..Len(seen) : seen[i] = source

LeafIdFromIndex(n_sources, idx) == idx + 1

\* line 52: every chunk makes two uuid4 calls, the unused default of line
\* 48 and then its id_; idx counts from 0
LeafId(n_sources, idx) == n_sources + 2 * idx + 2

\* lines 36-43: a parent document for every source with a non-empty text
RECURSIVE ParentDocs(_, _, _)
ParentDocs(seen, i, parent_texts) ==
    IF i > Len(seen) THEN <<>>
    ELSE (IF parent_texts[seen[i]] # <<>>
          THEN <<[id_ |-> i, text |-> parent_texts[seen[i]]]>>
          ELSE <<>>)
         \o ParentDocs(seen, i + 1, parent_texts)

\* build_nodes_from_chunks, lines 22-63; TextNode keeps the id_ and the
\* parent_id it is constructed with
BuildNodesFromChunks(chunks, parent_texts) ==
    LET seen == SourcesSeen(chunks, <<>>)
    IN  [leaf_nodes |->
             [i \in 1..Len(chunks) |->
                 [text |-> chunks[i].text,
                  id_ |-> LeafId(Len(seen), i - 1),
                  parent_id |-> DocId(seen, chunks[i].source),
                  metadata |-> [source |-> chunks[i].source,
                                chunk_index |-> i - 1,
                                len_characters |-> chunks[i].len_characters]]],
         parent_docs |-> ParentDocs(seen, 1, parent_texts)]

CallBuildNodes ==
    /\ call = "none"
    /\ \E chunks \in ChunkLists, parent_texts \in ParentTexts :
          /\ call' = "build_nodes"
          /\ args' = [chunks |-> chunks, parent_texts |-> parent_texts]
          /\ out' = BuildNodesFromChunks(chunks, parent_texts)
    /\ UNCHANGED <<jobVars, sessionVars, retrievalVars, evaluationVars, migrationVars>>

\* ------------------------------------------------------- FunctionsSpec
\* ------------------------------- RetrievalAgent.retrieve, per-query k
MaxPerQueryTopK == 12

\* lines 77-82 for one top_k and one number of queries
CallPerQueryK ==
    /\ call = "none"
    /\ \E k \in 1..MaxPerQueryTopK, q \in 1..SearchLimit, rerank \in BOOLEAN :
          /\ call' = "per_query_k"
          /\ args' = [top_k |-> k, num_queries |-> q, use_reranking |-> rerank]
          /\ out' = [per_query_k |-> PerQueryK(k, q, rerank)]
    /\ UNCHANGED <<jobVars, sessionVars, retrievalVars, evaluationVars, migrationVars>>

\* ------------------------- RetrievalAgent.retrieve, pooling the queries
MaxPerQueryDocs == 2

\* what the retriever can hand back for one query: result dicts with a
\* text (1 or 2) and a source
PoolDocs ==
    {DictValue(t, src, Missing, Missing) : t \in {1, 2}, src \in {"a.pdf", "b.PDF"}}

\* one call of self.retriever.retrieve: it raises, it returns the pair
\* (context, sources) of SimpleQdrantRetriever, or it returns the list of
\* result dicts that lines 87-90 read
RetrieveOutcomes ==
    {[raised |-> TRUE, value |-> <<>>],
     [raised |-> FALSE, value |-> RetrieverRetrieve(0, 1)],
     [raised |-> FALSE, value |-> RetrieverRetrieve(1, 1)]}
    \cup {[raised |-> FALSE, value |-> l] :
              l \in SeqsOf(PoolDocs, MaxPerQueryDocs)}

\* lines 79-94 over the queries in order: an exception in one query is
\* caught and the loop continues
RECURSIVE PoolDocuments(_, _)
PoolDocuments(outcomes, acc) ==
    IF outcomes = <<>> THEN acc
    ELSE PoolDocuments(Tail(outcomes),
                       IF Head(outcomes).raised THEN acc
                       ELSE CollectDocs(Head(outcomes).value, acc))

\* lines 96-97 and 131-139: [] for an empty pool, else the first top_k
\* with score None and new metadata
UnrankedResults(all_documents, k, enh) ==
    IF all_documents = <<>> THEN <<>>
    ELSE LET results == Take(all_documents, k)
         IN  [i \in 1..Len(results) |->
                 DictValue(results[i].text, results[i].source,
                           BoolStr(enh), "false")]

CallPoolDocuments ==
    /\ call = "none"
    /\ \E nq \in 1..SearchLimit, k \in 1..MaxTopK :
       \E outcomes \in [1..nq -> RetrieveOutcomes] :
          LET all_documents == PoolDocuments(outcomes, <<>>)
          IN  /\ call' = "pool"
              /\ args' = [outcomes |-> outcomes, top_k |-> k]
              /\ out' = [all_documents |-> all_documents,
                         results |-> UnrankedResults(all_documents, k, TRUE)]
    /\ UNCHANGED <<jobVars, sessionVars, retrievalVars, evaluationVars, migrationVars>>

\* ------------------------- RetrievalAgent.retrieve, the reranking branch
\* "unknown" as a source
UnknownSource == 0

\* lines 100-125: the texts and the sources of the pool go to the reranker,
\* its context is split at blank lines and text i is paired with source i
RerankedResults(texts, sources, k, response) ==
    LET reranked == RerankDocuments(texts, sources, k, response)
        reranked_texts == Take(SplitBlank(reranked.context), k)
    IN  [i \in 1..Len(reranked_texts) |->
            [text |-> reranked_texts[i],
             source |-> IF i <= Len(reranked.sources)
                        THEN reranked.sources[i] ELSE UnknownSource]]

\* retrieve with use_reranking on a pool of n documents with distinct texts
CallRerankedResults ==
    /\ call = "none"
    /\ \E n \in DocCounts \ {0}, k \in 1..MaxTopK, response \in RerankResponses :
       \E blank \in 0..1 :
          /\ call' = "retrieve_rerank"
          /\ args' = [n |-> n, blank |-> blank, top_k |-> k,
                      response |-> response]
          /\ out' = RerankedResults(Documents(n, blank), Sources(n), k,
                                    response)
    /\ UNCHANGED <<jobVars, sessionVars, retrievalVars, evaluationVars, migrationVars>>

FunctionsInit ==
    /\ JobIdle /\ SessionsIdle /\ RetrievalIdle /\ FunctionsIdle
    /\ EvaluationIdle /\ MigrationIdle

FunctionsNext ==
    \/ CallEnhanceQuery
    \/ CallRerank
    \/ CallRecursiveChunk
    \/ CallSemanticChunk
    \/ CallBuildNodes
    \/ CallPerQueryK
    \/ CallPoolDocuments
    \/ CallRerankedResults

FunctionsSpec == FunctionsInit /\ [][FunctionsNext]_vars


\* ==================================================== evaluation engine
\* EvaluationDocument: evaluation_id is the uuid4 default, modelled as the
\* number of the insert
NewEvaluation(id, group) ==
    [evaluation_id |-> id, question_group_id |-> group, status |-> "pending",
     num_documents_processed |-> 0, error_message |-> ""]

\* EvaluationDocument.find_one(evaluation_id == id)
HasEvaluation(evals, id) == \E i \in 1..Len(evals) : evals[i].evaluation_id = id
FindEvaluation(evals, id) ==
    evals[CHOOSE i \in 1..Len(evals) : evals[i].evaluation_id = id]

\* eval_doc.save()
SaveEvaluation(evals, doc) ==
    [i \in 1..Len(evals) |->
        IF evals[i].evaluation_id = doc.evaluation_id THEN doc ELSE evals[i]]

\* what generate_questions_from_folder does: raises for a path that is not
\* a folder, or returns the questions the LLM wrote for the PDFs
QuestionTexts == {"q1", "q2"}
GenerationOutcomes ==
    {[kind |-> "invalid_folder", questions |-> {}]}
    \cup {[kind |-> "ok", questions |-> qs] : qs \in SUBSET QuestionTexts}

\* run_evaluation, lines 186-265
RunEvaluation(evals, qa, evaluation_id, gen) ==
    IF ~HasEvaluation(evals, evaluation_id)
    THEN [evaluations |-> evals, qa_pairs |-> qa, raised |-> "ValueError"]
    ELSE LET eval_doc == FindEvaluation(evals, evaluation_id)
             failed(msg, n) ==
                 [evaluations |->
                      SaveEvaluation(evals,
                          [eval_doc EXCEPT !.status = "failed",
                                           !.num_documents_processed = n,
                                           !.error_message = msg]),
                  qa_pairs |-> qa, raised |-> "ValueError"]
         IN  IF gen.kind = "invalid_folder"
             THEN failed("Invalid folder path", 0)
             ELSE IF gen.questions = {}
             THEN failed("No questions generated from folder", 0)
             ELSE [evaluations |->
                       SaveEvaluation(evals,
                           [eval_doc EXCEPT
                                !.status = "completed",
                                !.num_documents_processed =
                                    Cardinality(gen.questions)]),
                   qa_pairs |->
                       qa \cup {[evaluation_id |-> evaluation_id,
                                 question |-> q] : q \in gen.questions},
                   raised |-> ""]

\* the positional arguments run_evaluation takes besides self (line 175)
RunEvaluationArity == 1

\* a call of run_evaluation: Python binds the arguments first and raises
\* TypeError when there are too many
CallRunEvaluation(evals, qa, arguments, gen) ==
    IF Len(arguments) # RunEvaluationArity
    THEN [evaluations |-> evals, qa_pairs |-> qa, raised |-> "TypeError"]
    ELSE RunEvaluation(evals, qa, arguments[1], gen)

\* start_evaluation, lines 36-64: the request arrives and its
\* question_group_id is resolved; the validator of the request refuses both
\* ids at once
EvalResolve(r) ==
    /\ evalReqs[r].pc = "idle"
    /\ \E src \in 0..MaxEvalRequests, grp \in {"", "g1"} :
          /\ src = 0 \/ grp = ""
          /\ evalReqs' = [evalReqs EXCEPT ![r] =
                IF src # 0
                THEN IF ~HasEvaluation(evaluations, src)
                     THEN [@ EXCEPT !.pc = "raised",
                                    !.source_evaluation_id = src,
                                    !.raised = "ValueError"]
                     ELSE [@ EXCEPT !.pc = "create",
                                    !.source_evaluation_id = src,
                                    !.group = FindEvaluation(evaluations, src)
                                                  .question_group_id,
                                    !.reused = TRUE]
                ELSE IF grp # ""
                THEN IF ~\E q \in questions : q.question_group_id = grp
                     THEN [@ EXCEPT !.pc = "raised",
                                    !.question_group_id = grp,
                                    !.raised = "ValueError"]
                     ELSE [@ EXCEPT !.pc = "create",
                                    !.question_group_id = grp,
                                    !.group = grp,
                                    !.reused = TRUE]
                ELSE [@ EXCEPT !.pc = "create"]]
    /\ UNCHANGED <<jobVars, sessionVars, retrievalVars, functionVars, migrationVars,
                   evaluations, questions, qa_pairs, lastStatus>>

\* start_evaluation, lines 67-77: insert the pending document
EvalInsert(r) ==
    /\ evalReqs[r].pc = "create"
    /\ LET id == Len(evaluations) + 1
       IN  /\ evaluations' = Append(evaluations,
                                    NewEvaluation(id, evalReqs[r].group))
           /\ evalReqs' = [evalReqs EXCEPT ![r].pc = "run",
                                           ![r].evaluation_id = id]
    /\ UNCHANGED <<jobVars, sessionVars, retrievalVars, functionVars, migrationVars,
                   questions, qa_pairs, lastStatus>>

\* start_evaluation, lines 83-86: run_evaluation is called with the
\* evaluation id and the question_group_id; what it raises is logged
EvalRun(r) ==
    /\ evalReqs[r].pc = "run"
    /\ \E gen \in GenerationOutcomes :
          LET res == CallRunEvaluation(evaluations, qa_pairs,
                                       <<evalReqs[r].evaluation_id,
                                         evalReqs[r].group>>, gen)
          IN  /\ evaluations' = res.evaluations
              /\ qa_pairs' = res.qa_pairs
              /\ evalReqs' = [evalReqs EXCEPT ![r].pc = "reload",
                                              ![r].raised = res.raised]
    /\ UNCHANGED <<jobVars, sessionVars, retrievalVars, functionVars, migrationVars,
                   questions, lastStatus>>

\* start_evaluation, lines 89-99: read the document again and answer
EvalReturn(r) ==
    /\ evalReqs[r].pc = "reload"
    /\ LET eval_doc == FindEvaluation(evaluations, evalReqs[r].evaluation_id)
       IN  evalReqs' = [evalReqs EXCEPT
               ![r].pc = "done",
               ![r].response =
                   [evaluation_id |-> eval_doc.evaluation_id,
                    question_group_id |-> eval_doc.question_group_id,
                    status |-> eval_doc.status,
                    reused_questions |-> evalReqs[r].reused]]
    /\ UNCHANGED <<jobVars, sessionVars, retrievalVars, functionVars, migrationVars,
                   evaluations, questions, qa_pairs, lastStatus>>

\* _get_related_evaluation_ids, lines 157-167
RelatedEvaluationIds(evals, question_group_id, exclude_evaluation_id) ==
    LET related_evals ==
            SelectSeq(evals, LAMBDA d :
                          d.question_group_id = question_group_id)
        kept == SelectSeq(related_evals, LAMBDA d :
                              d.evaluation_id # exclude_evaluation_id)
    IN  [i \in 1..Len(kept) |-> kept[i].evaluation_id]

\* get_evaluation_status, lines 111-140
GetEvaluationStatus ==
    /\ \E id \in 1..MaxEvalRequests :
          lastStatus' =
              IF ~HasEvaluation(evaluations, id)
              THEN [NoStatus EXCEPT !.evaluation_id = id]
              ELSE LET eval_doc == FindEvaluation(evaluations, id)
                   IN  [found |-> TRUE,
                        evaluation_id |-> id,
                        question_group_id |-> eval_doc.question_group_id,
                        status |-> eval_doc.status,
                        error_message |-> eval_doc.error_message,
                        related_evaluation_ids |->
                            RelatedEvaluationIds(evaluations,
                                                 eval_doc.question_group_id,
                                                 id)]
    /\ UNCHANGED <<jobVars, sessionVars, retrievalVars, functionVars, migrationVars,
                   evaluations, questions, qa_pairs, evalReqs>>

EvaluationInit ==
    /\ JobIdle /\ SessionsIdle /\ RetrievalIdle /\ FunctionsIdle
    /\ EvaluationIdle /\ MigrationIdle

EvaluationNext ==
    \/ \E r \in EvalReqIds :
          \/ EvalResolve(r)
          \/ EvalInsert(r)
          \/ EvalRun(r)
          \/ EvalReturn(r)
    \/ GetEvaluationStatus

EvaluationSpec == EvaluationInit /\ [][EvaluationNext]_vars


\* ================================================ SessionBackgroundTasks
\* The tasks of session_cleanup_loop run on the API process's event loop and
\* give it up at their awaits: the MongoDB calls and asyncio.sleep.

\* SCAN with match session:*, in one fixed order
ScanOrder == <<"s1", "s2">>
Scan(keys) == SelectSeq(ScanOrder, LAMBDA s : keys[s].present)

\* SessionDocument.find_one(session_id == id): the first match, 0 for None
FindOne(documents, id) ==
    IF \E i \in 1..Len(documents) : documents[i].session_id = id
    THEN CHOOSE i \in 1..Len(documents) :
            /\ documents[i].session_id = id
            /\ \A j \in 1..(i - 1) : documents[j].session_id # id
    ELSE 0

\* the smallest free task slot
FreeLoop == CHOOSE l \in LoopIds :
                /\ loops[l].pc = "none"
                /\ \A m \in LoopIds : loops[m].pc = "none" => l <= m

\* start_background_tasks
StartBackgroundTasks ==
    /\ lifecycle < MaxLifecycleCalls
    /\ running \/ \E l \in LoopIds : loops[l].pc = "none"
    /\ lifecycle' = lifecycle + 1
    /\ IF running
       THEN UNCHANGED <<running, loops>>
       ELSE /\ running' = TRUE
            /\ loops' = [loops EXCEPT ![FreeLoop] = [NoLoop EXCEPT !.pc = "created"]]
    /\ UNCHANGED <<jobVars, sessionVars, retrievalVars, functionVars,
                   evaluationVars, session_keys, chat_sessions,
                   unique_session_id>>

\* stop_background_tasks
StopBackgroundTasks ==
    /\ lifecycle < MaxLifecycleCalls
    /\ lifecycle' = lifecycle + 1
    /\ running' = FALSE
    /\ UNCHANGED <<jobVars, sessionVars, retrievalVars, functionVars,
                   evaluationVars, loops, session_keys, chat_sessions,
                   unique_session_id>>

\* session_cleanup_loop, line 38, and cleanup_expired_sessions up to the
\* SCAN: the task starts or comes back from its sleep and tests
\* self.running; a SCAN that raises ends the pass (lines 97-98)
LoopWake(l) ==
    /\ loops[l].pc \in {"created", "sleeping"}
    /\ IF ~running
       THEN loops' = [loops EXCEPT ![l] = NoLoop]
       ELSE \E scan_raises \in BOOLEAN :
               loops' = [loops EXCEPT ![l] =
                           IF scan_raises
                           THEN [NoLoop EXCEPT !.pc = "sleeping"]
                           ELSE [NoLoop EXCEPT
                                   !.pc = "keys",
                                   !.keys = Scan(session_keys),
                                   !.scanned = {s \in SessionIds :
                                                   session_keys[s].present}]]
    /\ UNCHANGED <<jobVars, sessionVars, retrievalVars, functionVars,
                   evaluationVars, running, session_keys, chat_sessions,
                   lifecycle, unique_session_id>>

RestAfterFailureAbort(keys) == <<>>

\* lines 87-89 and 83-85: an error on one key is counted and the for loop
\* goes on with the next key
RestAfterFailure(keys) == Tail(keys)

\* the task after its current key was skipped or has failed
SkipKey(lp) ==
    [lp EXCEPT !.pc = "keys", !.keys = RestAfterFailure(@),
               !.skipped = @ \cup {Head(lp.keys)},
               !.key = "", !.session = <<>>, !.existing = 0]

\* lines 68-78: GET the key; no data (the key has expired, get_session
\* caught an error) or a Session that cannot be built leaves the key out
LoopGet(l) ==
    /\ loops[l].pc = "keys"
    /\ loops[l].keys # <<>>
    /\ \E raises \in BOOLEAN :
          LET s == Head(loops[l].keys)
          IN  loops' = [loops EXCEPT ![l] =
                          IF session_keys[s].present /\ ~raises
                          THEN [@ EXCEPT !.pc = "find", !.key = s,
                                         !.session = session_keys[s].messages]
                          ELSE SkipKey(@)]
    /\ UNCHANGED <<jobVars, sessionVars, retrievalVars, functionVars,
                   evaluationVars, running, session_keys, chat_sessions,
                   lifecycle, unique_session_id>>

\* save_session_to_mongodb, lines 85-93: the find_one the task awaits; an
\* exception makes the save return False
LoopFind(l) ==
    /\ loops[l].pc = "find"
    /\ \E raises \in BOOLEAN :
          loops' = [loops EXCEPT ![l] =
                      IF raises THEN SkipKey(@)
                      ELSE [@ EXCEPT !.pc = "write",
                                     !.existing = FindOne(chat_sessions,
                                                          loops[l].key)]]
    /\ UNCHANGED <<jobVars, sessionVars, retrievalVars, functionVars,
                   evaluationVars, running, session_keys, chat_sessions,
                   lifecycle, unique_session_id>>

\* insert(): with a unique index on session_id a second document of the
\* same session is refused
InsertRefused(documents, id) ==
    unique_session_id /\ FindOne(documents, id) # 0

\* the task after its current key was saved
KeySaved(lp) ==
    [lp EXCEPT !.pc = "keys", !.keys = Tail(@),
               !.key = "", !.session = <<>>, !.existing = 0]

\* save_session_to_mongodb, lines 95-109: update the document found, or
\* insert a new one
LoopWrite(l) ==
    /\ loops[l].pc = "write"
    /\ \E raises \in BOOLEAN :
          LET lp == loops[l]
          IN  IF raises \/ (lp.existing = 0 /\ InsertRefused(chat_sessions, lp.key))
              THEN /\ loops' = [loops EXCEPT ![l] = SkipKey(@)]
                   /\ UNCHANGED chat_sessions
              ELSE /\ loops' = [loops EXCEPT ![l] = KeySaved(@)]
                   /\ chat_sessions' =
                         IF lp.existing # 0
                         THEN [chat_sessions EXCEPT
                                 ![lp.existing].messages = lp.session]
                         ELSE Append(chat_sessions,
                                     [session_id |-> lp.key,
                                      messages |-> lp.session])
    /\ UNCHANGED <<jobVars, sessionVars, retrievalVars, functionVars,
                   evaluationVars, running, session_keys, lifecycle,
                   unique_session_id>>

\* lines 91-95 and 41-44: the pass is over, the task sleeps
LoopPassEnd(l) ==
    /\ loops[l].pc = "keys"
    /\ loops[l].keys = <<>>
    /\ loops' = [loops EXCEPT ![l].pc = "sleeping"]
    /\ UNCHANGED <<jobVars, sessionVars, retrievalVars, functionVars,
                   evaluationVars, running, session_keys, chat_sessions,
                   lifecycle, unique_session_id>>

\* the TTL of a session key runs out
ExpireKey(s) ==
    /\ session_keys[s].present
    /\ session_keys' = [session_keys EXCEPT ![s] = NoKey]
    /\ UNCHANGED <<jobVars, sessionVars, retrievalVars, functionVars,
                   evaluationVars, running, loops, chat_sessions, lifecycle,
                   unique_session_id>>

\* the sessions in Redis when the process starts; whether MongoDB enforces
\* session_id as unique depends on what Beanie makes of
\* Field(index=True, unique=True)
MigrationInit ==
    /\ JobIdle /\ SessionsIdle /\ RetrievalIdle /\ FunctionsIdle
    /\ EvaluationIdle
    /\ running = FALSE
    /\ loops = [l \in LoopIds |-> NoLoop]
    /\ session_keys \in [SessionIds -> {NoKey, SetSession(<<>>),
                                        SetSession(<<"A">>)}]
    /\ chat_sessions = <<>>
    /\ lifecycle = 0
    /\ unique_session_id \in BOOLEAN

MigrationNext ==
    \/ StartBackgroundTasks
    \/ StopBackgroundTasks
    \/ \E l \in LoopIds : LoopWake(l)
    \/ \E l \in LoopIds : LoopGet(l)
    \/ \E l \in LoopIds : LoopFind(l)
    \/ \E l \in LoopIds : LoopWrite(l)
    \/ \E l \in LoopIds : LoopPassEnd(l)
    \/ \E s \in SessionIds : ExpireKey(s)

MigrationSpec == MigrationInit /\ [][MigrationNext]_vars

\* asyncio resumes every task whose await has completed
MigrationFairness ==
    \A l \in LoopIds :
        /\ WF_vars(LoopWake(l))
        /\ WF_vars(LoopGet(l))
        /\ WF_vars(LoopFind(l))
        /\ WF_vars(LoopWrite(l))
        /\ WF_vars(LoopPassEnd(l))

FairMigrationSpec == MigrationSpec /\ MigrationFairness

\* ================================================================ claims
PastIncr == {w \in Tasks : workers[w].incs > 0}

RECURSIVE SumIncs(_, _)
SumIncs(ws, n) == IF n = 0 THEN 0 ELSE ws[n].incs + SumIncs(ws, n - 1)

RECURSIVE SumSuccessIncs(_, _)
SumSuccessIncs(ws, n) ==
    IF n = 0 THEN 0 ELSE ws[n].sIncs + SumSuccessIncs(ws, n - 1)

\* the increment_processed calls whose INCRs were executed
IncrCalls == SumIncs(workers, Len(all_files))
CountersLive == finalizer.pc \in {"queued", "indexing", "indexed"}
Terminal == snapshot.status \in {"completed", "failed"}

RECURSIVE SuccessChunks(_)
SuccessChunks(ws) ==
    IF ws = {} THEN 0
    ELSE LET w == CHOOSE x \in ws : TRUE
         IN  (IF workers[w].success THEN ChunkCount[all_files[w]] ELSE 0)
             + SuccessChunks(ws \ {w})

\* C1: after initialize(job, N), while the counter keys have not been
\* cleaned up, processed equals the number of increment calls made and
\* successful + failed == processed; after all N calls processed == N.
C1_CountersAfterIncrements ==
    CountersLive =>
        /\ counters.processed = IncrCalls
        /\ counters.successful = SumSuccessIncs(workers, Len(all_files))
        /\ counters.successful + counters.failed = counters.processed
        /\ (IncrCalls = Len(all_files) => counters.processed = Len(all_files))

C1_Witness ==
    /\ finalizer.pc = "queued"
    /\ Len(all_files) = 2
    /\ PastIncr = Tasks
    /\ counters = [processed |-> 2, successful |-> 1, failed |-> 1]

\* C2: once a worker's increment has returned, the snapshot that get
\* returns while the job is processing has processed_documents at least
\* the count that increment produced.
C2_ReadYourWrites ==
    \A w \in Tasks :
        (workers[w].pc = "done" /\ finalizer.pc = "queued"
             /\ snapshot.status = "processing")
        => snapshot.processed >= workers[w].cnt

\* C3: a folder job that fanned out its worker tasks eventually has a
\* terminal snapshot (completed or failed).
C3_EventuallyTerminal == (finalizer.pc = "queued") ~> Terminal

C3_Witness ==
    /\ Len(all_files) >= 1
    /\ finalizer.pc = "done"
    /\ finalizer.polls >= 1
    /\ snapshot.status = "completed"

\* C4: a completed snapshot of a folder job reports processed == total ==
\* the number of enumerated files, successful == the number of files whose
\* run returned success and failed == the rest.
C4_CompletedCounts ==
    (master = "done" /\ snapshot.status = "completed") =>
        LET ok == Cardinality({w \in Tasks : workers[w].success})
        IN  /\ snapshot.total = Len(all_files)
            /\ snapshot.processed = Len(all_files)
            /\ snapshot.successful = ok
            /\ snapshot.failed = Len(all_files) - ok

\* C5: an exception in a worker task is counted as one failed document and
\* leaves the job running: the job is not marked failed by it and no other
\* task is withdrawn.
C5_WorkerExceptionCounted ==
    \A w \in Tasks :
        (workers[w].raised /\ workers[w].pc # "ran") =>
            /\ workers[w].incs = 1
            /\ workers[w].sIncs = 0
            /\ ~workers[w].success
            /\ CountersLive =>
                  counters.failed = IncrCalls - SumSuccessIncs(workers, Len(all_files))
            /\ finalizer.pc # "ignored" =>
                  snapshot.status \in {"processing", "indexing", "completed"}
            /\ \A v \in Tasks : workers[v].pc # "none"

C5_Witness ==
    /\ \E w \in Tasks : workers[w].raised
    /\ \E w \in Tasks : workers[w].success
    /\ snapshot.status = "completed"
    /\ snapshot.total = 2

\* C6 as stated: every status written is pending, processing, completed or
\* failed, and no other value appears between processing and the terminal
\* status.
C6_StatusLifecycle ==
    \A i \in 1..Len(statusLog) :
        /\ statusLog[i] \in {"pending", "processing", "completed", "failed"}
        /\ (statusLog[i] \in {"completed", "failed"} /\ i > 1) =>
              statusLog[i - 1] \in {"pending", "processing"}

\* C6 amended: every status written is processing, indexing, completed or
\* failed; indexing follows processing, the completed snapshot of a
\* fanned-out job follows indexing, and nothing follows completed.
C6_StatusLifecycleAmended ==
    /\ \A i \in 1..Len(statusLog) :
          /\ statusLog[i] \in {"processing", "indexing", "completed", "failed"}
          /\ statusLog[i] = "indexing" => i > 1 /\ statusLog[i - 1] = "processing"
          /\ (statusLog[i] = "completed" /\ i > 1) => statusLog[i - 1] = "indexing"
          /\ statusLog[i] = "completed" => i = Len(statusLog)
    /\ (statusLog # <<>> /\ finalizer.pc # "none") => statusLog[1] = "processing"

C6_Witness == statusLog = <<"processing", "indexing", "completed">>

\* C7: the nodes of every document a worker has reported as successful
\* are already in the vector store.
C7_WriteBeforeReport ==
    directCalls = 0 =>
        chroma >= SuccessChunks({w \in PastIncr : workers[w].success})

\* C8: when a folder job has completed, the store has grown by exactly the
\* sum of chunk_count over the job's successfully ingested documents.
C8_StoreGrowth ==
    (finalizer.pc = "done" /\ snapshot.status = "completed" /\ directCalls = 0)
    => chroma = SuccessChunks({w \in Tasks : workers[w].success})

\* C9: run_single_doc never raises; a failing step gives success = false
\* with an error and no later step runs; a document without text gives
\* success = false with no chunking and no store write.
C9_SingleDocNeverRaises ==
    lastRun.pipeline # "none" =>
        LET steps == PipelineSteps(lastRun.pipeline)
            k == IndexOf(steps, lastRun.failAt)
        IN  /\ lastRun.outcome = "return"
            /\ lastRun.success <=> lastRun.error = ""
            /\ (k > 0 /\ (lastRun.kind = "text" \/ k = 1)) =>
                  /\ ~lastRun.success
                  /\ lastRun.steps = SubSeq(steps, 1, k)
                  /\ lastRun.written = 0
            /\ (lastRun.kind = "empty" /\ k # 1) =>
                  /\ ~lastRun.success
                  /\ lastRun.steps = <<"extract">>
                  /\ lastRun.written = 0
            /\ lastRun.success => lastRun.steps = steps

C9_Witness ==
    /\ lastRun.pipeline = "recursive_overlap"
    /\ lastRun.kind = "text"
    /\ lastRun.failAt = "upsert"
    /\ ~lastRun.success

\* C10 as stated: a missing folder or an empty file list moves the job to
\* failed with an error message, enqueues no task and leaves the HTTP
\* answer alone.
SchedulingStopped ==
    /\ master \in {"done", "ignored"}
    /\ ~folderExists \/ EnumerateFiles(folder, file_types) = <<>>

C10_SchedulingErrorFails ==
    SchedulingStopped =>
        /\ snapshot.status = "failed"
        /\ snapshot.error # ""
        /\ \A w \in WorkerIds : workers[w].pc = "none"
        /\ finalizer.pc = "none"
        /\ http = "started"

\* C10 amended: a missing folder moves the job to failed with an error
\* message; an empty file list moves it to completed with zero counts;
\* in both cases no task is enqueued and the HTTP answer stays "started".
C10_SchedulingStopAmended ==
    SchedulingStopped =>
        /\ ~folderExists => snapshot.status = "failed" /\ snapshot.error # ""
        /\ folderExists =>
              /\ snapshot.status = "completed"
              /\ snapshot.total = 0 /\ snapshot.successful = 0 /\ snapshot.failed = 0
        /\ \A w \in WorkerIds : workers[w].pc = "none"
        /\ finalizer.pc = "none"
        /\ http = "started"

C10_Witness ==
    /\ folderExists /\ folder # {}
    /\ master = "done" /\ all_files = <<>>
    /\ snapshot.status = "completed"

\* the distinct files of the folder whose extension matches an entry of
\* file_types
MatchingFiles ==
    {f \in folder : \E i \in 1..Len(file_types) : Matches(f, file_types[i])}

\* C11: when the folder exists and none of its files matches file_types,
\* the master task leaves a completed snapshot with total, successful and
\* failed all 0, creates no counter key and enqueues neither a worker task
\* nor the finalizer.
C11_NoFilesCompletedEmpty ==
    (master = "done" /\ folderExists /\ MatchingFiles = {}) =>
        /\ snapshot.status = "completed"
        /\ snapshot.total = 0
        /\ snapshot.processed = 0
        /\ snapshot.successful = 0
        /\ snapshot.failed = 0
        /\ counters = NoCounters
        /\ \A w \in WorkerIds : workers[w] = IdleWorker
        /\ finalizer = NoFinalizer

C11_Witness ==
    /\ master = "done"
    /\ folderExists
    /\ folder = FileUniverse
    /\ file_types = <<"json">>
    /\ snapshot = CompletedSnapshot(0, 0)
    /\ counters = NoCounters

\* C12: after fan-out there is exactly one worker task per distinct
\* matching file, and the total the counters were initialized with is the
\* number of distinct matching files, for every file_types list.
C12_OneTaskPerFile ==
    (master = "done" /\ folderExists) =>
        /\ Len(all_files) = Cardinality(MatchingFiles)
        /\ \A f \in MatchingFiles :
              Cardinality({w \in WorkerIds :
                  workers[w].pc # "none" /\ w \in Tasks /\ all_files[w] = f}) = 1
        /\ Cardinality({w \in WorkerIds : workers[w].pc # "none"})
              = Cardinality(MatchingFiles)
        /\ (finalizer.pc = "queued" /\ PastIncr = {} /\ snapshot.status = "processing")
              => snapshot.total = Cardinality(MatchingFiles)

\* C13: every worker task that has run the pipeline ran the one named by
\* the job's pipeline_type.
C13_WorkerRunsJobPipeline ==
    \A w \in Tasks :
        workers[w].pipeline # "none" => workers[w].pipeline = pipeline_type

\* C14: every counter key that exists has an expiry (the snapshot key is
\* only ever written with SETEX).
C14_EveryKeyHasTTL ==
    \A k \in CounterKeys : counters[k] # Absent => k \notin noExpiry

\* a call on the session returns in this step
Returned(r) == reqs[r].op # "idle" /\ reqs'[r].op = "idle"

Range(seq) == {seq[i] : i \in 1..Len(seq)}

IsPrefix(a, b) == Len(a) <= Len(b) /\ SubSeq(b, 1, Len(a)) = a

\* C15: a get_or_create that starts after another get_or_create has
\* returned, with no message appended in between, returns the same message
\* list.
C15_GetTwiceSame ==
    [][\A r \in ReqIds :
          (Returned(r) /\ reqs[r].op = "get" /\ reqs[r].expect.valid)
          => lastRet' = reqs[r].expect.messages]_vars

\* C16: every session a call returns holds every message whose append has
\* returned before.
C16_AckedMessagesKept ==
    [][\A r \in ReqIds : Returned(r) => acked \subseteq Range(lastRet')]_vars

\* C17: the message list a call returns extends the list the previous
\* return showed: nothing is dropped or reordered.
C17_AppendOnly ==
    [][\A r \in ReqIds : Returned(r) => IsPrefix(lastRet, lastRet')]_vars

\* C18: when get_or_create returns, the key session:<id> exists in Redis
\* with the full TTL.
C18_ReadExtendsTTL ==
    [][\A r \in ReqIds :
          (Returned(r) /\ reqs[r].op = "get")
          => (hot'.present /\ hot'.ttl = FullTTL)]_vars

\* C19: without enhancer and reranking, retrieve returns exactly
\* min(top_k, store_count) results, each a result with a score in [0, 1]
\* (here in hundredths), in non-increasing order of score.
C19_DirectResults ==
    (retrievePc # "idle" /\ caller # "none" /\ httpRetrieve # 503
        /\ ~use_query_enhancer /\ ~use_reranking) =>
        /\ Len(result) = Min(top_k, store_count)
        /\ \A i \in 1..Len(result) :
              /\ result[i].kind = "dict"
              /\ result[i].score \notin {Null, Missing}
              /\ result[i].score \in 0..100
        /\ \A i \in 1..(Len(result) - 1) :
              /\ result[i].kind = "dict" /\ result[i + 1].kind = "dict"
              /\ result[i].score \notin {Null, Missing}
              /\ result[i + 1].score \notin {Null, Missing}
              /\ result[i].score >= result[i + 1].score

C30_ProcessedIsSum ==
    (snapshot # NoSnap /\ snapshot.status = "processing")
        => snapshot.processed = snapshot.successful + snapshot.failed

\* C21: enhance_query(q) returns at most 5 queries with q first, for every
\* LLM answer (also one that holds q at a later position); when the call or
\* the parse fails it returns exactly [q] and does not raise; so q is among
\* the at most 3 queries that retrieve searches.
C21_OriginalFirst ==
    call = "enhance_query" =>
        /\ ~out.enhanced.raised
        /\ Len(out.enhanced.queries) \in 1..5
        /\ out.enhanced.queries[1] = args.original_query
        /\ args.response.kind \in {"raise", "invalid"}
              => out.enhanced.queries = <<args.original_query>>
        /\ Len(out.queries_to_search) <= 3
        /\ args.original_query \in Range(out.queries_to_search)

\* C22: rerank looks at the first 20 documents only and returns at most top_k
\* of them, highest relevance_score first, the i-th returned source being the
\* source of the i-th returned text; when the LLM call fails or its answer is
\* malformed it returns the first top_k documents in the input order.
C22_First20 ==
    \A i \in 1..Len(out.sources) : out.sources[i] <= 20

C22_AtMostTopK ==
    Len(out.sources) <= args.top_k

C22_ByScore ==
    args.response.kind = "list" =>
        \A i, j \in 1..Len(out.sources) :
            i < j =>
                \E a, b \in Range(args.response.ranked_documents) :
                    /\ a.index + 1 = out.sources[i]
                    /\ b.index + 1 = out.sources[j]
                    /\ a.relevance_score >= b.relevance_score

C22_Parallel ==
    LET texts == SplitBlank(out.context)
    IN  /\ Len(texts) = Len(out.sources)
        /\ \A i \in 1..Len(texts) :
               texts[i] = DocText(out.sources[i], args.blank)

C22_Fallback ==
    args.response.kind # "list" =>
        out.sources = Take(Sources(Min(args.n, 20)), args.top_k)

C22_RerankContract ==
    call = "rerank" =>
        /\ C22_First20
        /\ C22_AtMostTopK
        /\ C22_ByScore
        /\ C22_Parallel
        /\ C22_Fallback

\* C23: every chunk of the recursive-overlap chunker has a length that is
\* more than 0 and at most chunk_size, before the overlap is applied and
\* after it.
C23_ChunkLengths ==
    call = "recursive_chunk" =>
        /\ \A i \in 1..Len(out.base_chunks) :
               Len(out.base_chunks[i]) \in 1..args.chunk_size
        /\ \A i \in 1..Len(out.chunks) :
               Len(out.chunks[i].text) \in 1..args.chunk_size

\* an overlapped chunk that had to be cut back to chunk_size
C23_Witness ==
    /\ call = "recursive_chunk"
    /\ args.chunk_overlap > 0
    /\ Len(out.base_chunks) > 1
    /\ \E i \in 2..Len(out.base_chunks) :
           /\ Len(LastChars(out.base_chunks[i - 1], args.chunk_overlap))
                  + Len(out.base_chunks[i]) > args.chunk_size
           /\ Len(out.chunks[i].text) = args.chunk_size

RECURSIVE IsSubsequence(_, _)
IsSubsequence(a, b) ==
    IF a = <<>> THEN TRUE
    ELSE IF b = <<>> THEN FALSE
    ELSE IF Head(a) = Head(b) THEN IsSubsequence(Tail(a), Tail(b))
    ELSE IsSubsequence(a, Tail(b))

RECURSIVE ConcatTexts(_)
ConcatTexts(chunks) ==
    IF chunks = <<>> THEN <<>>
    ELSE Head(chunks).text \o ConcatTexts(Tail(chunks))

\* C24: with chunk_overlap = 0 the chunks, put one after the other, are a
\* subsequence of the input text: splitting drops separators and whitespace
\* and never adds or repeats a character, also when pieces are packed into
\* one buffer.
C24_ChunksAreSubsequence ==
    (call = "recursive_chunk" /\ args.chunk_overlap = 0) =>
        IsSubsequence(ConcatTexts(out.chunks), args.text)

\* C25: every chunk that either chunker emits has len_characters equal to
\* the length of its text and a text that is not empty after trimming; an
\* empty input text, or one whose propositions are all discarded, gives no
\* chunk, not an empty one.
C25_ChunksNotEmpty ==
    call \in {"recursive_chunk", "semantic_chunk"} =>
        /\ \A i \in 1..Len(out.chunks) :
               /\ out.chunks[i].len_characters = Len(out.chunks[i].text)
               /\ Strip(out.chunks[i].text) # <<>>
        /\ args.text = <<>> => out.chunks = <<>>
        /\ (call = "semantic_chunk" /\ args.props = <<>>)
              => out.chunks = <<>>

\* the ids of a build: the leaf nodes first, then the parent documents
NodeIds(o) ==
    [i \in 1..Len(o.leaf_nodes) |-> o.leaf_nodes[i].id_]
    \o [i \in 1..Len(o.parent_docs) |-> o.parent_docs[i].id_]

\* C26: build_nodes_from_chunks gives one leaf node per chunk, in the order
\* of the chunks; leaf nodes of one source have one parent_id, leaf nodes of
\* different sources have different parent_ids, and no two nodes of the
\* build have the same id.
C26_NodeBuilder ==
    call = "build_nodes" =>
        LET leaves == out.leaf_nodes
            ids == NodeIds(out)
        IN  /\ Len(leaves) = Len(args.chunks)
            /\ \A i \in 1..Len(leaves) :
                   /\ leaves[i].text = args.chunks[i].text
                   /\ leaves[i].metadata.source = args.chunks[i].source
            /\ \A i, j \in 1..Len(leaves) :
                   (args.chunks[i].source = args.chunks[j].source)
                       <=> (leaves[i].parent_id = leaves[j].parent_id)
            /\ \A i, j \in 1..Len(ids) : i # j => ids[i] # ids[j]

\* a build with two sources, two chunks of one of them, and a parent
\* document
C26_Witness ==
    /\ call = "build_nodes"
    /\ Len(out.leaf_nodes) = 3
    /\ Len(out.parent_docs) = 2
    /\ out.leaf_nodes[1].parent_id = out.leaf_nodes[3].parent_id
    /\ out.leaf_nodes[1].parent_id # out.leaf_nodes[2].parent_id

\* the questions an evaluation ran retrieval for
EvaluatedQuestions(id) == {p.question : p \in {x \in qa_pairs : x.evaluation_id = id}}

\* the requests that start_evaluation has answered
Answered == {r \in EvalReqIds : evalReqs[r].pc = "done"}

\* C27: an evaluation started with source_evaluation_id or question_group_id
\* shares the question_group_id of an earlier one and runs retrieval over
\* exactly that one's stored questions: its run does take place, it
\* generates no question, and the questions it evaluates are the first's.
C27_ReusedQuestions ==
    \A r \in Answered :
        evalReqs[r].reused =>
            LET id == evalReqs[r].evaluation_id
                mine == FindEvaluation(evaluations, id)
            IN  /\ mine.status # "pending"
                /\ \A i \in 1..Len(evaluations) :
                       (evaluations[i].evaluation_id < id
                        /\ evaluations[i].question_group_id
                               = mine.question_group_id
                        /\ evaluations[i].status = "completed")
                           => EvaluatedQuestions(id)
                                  = EvaluatedQuestions(
                                        evaluations[i].evaluation_id)

\* C28: an evaluation started with neither id has a question_group_id that no
\* earlier evaluation has, so it has no related evaluation; one started with
\* source_evaluation_id has that evaluation's question_group_id, and each of
\* the two is among the other's related_evaluation_ids.
C28_QuestionGroups ==
    \A r \in Answered :
        LET id == evalReqs[r].evaluation_id
            mine == FindEvaluation(evaluations, id)
            src == evalReqs[r].source_evaluation_id
        IN  /\ ~evalReqs[r].reused =>
                   \A i \in 1..Len(evaluations) :
                       evaluations[i].evaluation_id < id
                           => evaluations[i].question_group_id
                                  # mine.question_group_id
            /\ src # 0 =>
                   /\ mine.question_group_id
                          = FindEvaluation(evaluations, src).question_group_id
                   /\ src \in Range(RelatedEvaluationIds(
                                  evaluations, mine.question_group_id, id))
                   /\ id \in Range(RelatedEvaluationIds(
                                 evaluations, mine.question_group_id, src))

\* C29: when start_evaluation returns, the evaluation it created is completed
\* or failed, in the answer and in the stored document, and a failed one has
\* its error_message; none is left pending or running.
C29_EndsCompletedOrFailed ==
    \A r \in Answered :
        LET mine == FindEvaluation(evaluations, evalReqs[r].evaluation_id)
        IN  /\ evalReqs[r].response.status \in {"completed", "failed"}
            /\ mine.status \in {"completed", "failed"}
            /\ mine.status = "failed" => mine.error_message # ""

\* the step writes the completed snapshot of a job that fanned out tasks
WritesCompleted ==
    /\ all_files # <<>>
    /\ snapshot.status # "completed"
    /\ snapshot'.status = "completed"

C31_NoTaskOutstanding ==
    [][WritesCompleted => \A w \in Tasks : workers[w].pc = "done"]_vars

\* C31: the completed snapshot of a folder job is written only when every
\* one of its worker tasks has finished and the processed counter equals
\* the total; never while a worker task is pending or running.
C31_CompletedAfterAllWorkers ==
    [][WritesCompleted =>
          /\ \A w \in Tasks : workers[w].pc = "done" /\ workers[w].incs >= 1
          /\ GetInt(counters.processed) = Len(all_files)]_vars

\* C32: every worker task increments the processed counter exactly once,
\* on every path (pipeline success, failure result, exception, error inside
\* the progress update after the INCRs); so processed <= total always.
C32_IncrementsOnce ==
    /\ \A w \in Tasks : workers[w].incs <= 1
    /\ \A w \in Tasks : workers[w].pc = "done" => workers[w].incs = 1
    /\ GetInt(counters.processed) <= Len(all_files)

\* C33: once the snapshot is completed or failed, no later step changes the
\* snapshot (its status, its totals) or recreates a deleted counter key.
C33_TerminalAbsorbing ==
    [][Terminal =>
          /\ snapshot' = snapshot
          /\ \A k \in CounterKeys :
                counters[k] = Absent => counters'[k] = Absent]_vars

\* C34 as stated: the number of results requested per query is
\* max(4, (top_k / num_queries) * 2) with reranking and
\* max(2, top_k / num_queries) without, for top_k >= 1 and 1..3 queries.
C34_PerQueryK ==
    call = "per_query_k" =>
        out.per_query_k =
            IF args.use_reranking
            THEN Max(4, (args.top_k \div args.num_queries) * 2)
            ELSE Max(2, args.top_k \div args.num_queries)

\* C34 amended: the number of results requested per query is
\* max(4, (top_k div num_queries) * 2) with reranking and
\* max(4, top_k div num_queries) without: the floor is 4 in both cases.
C34_PerQueryKAmended ==
    call = "per_query_k" =>
        /\ out.per_query_k >= 4
        /\ args.use_reranking =>
              out.per_query_k = Max(4, (args.top_k \div args.num_queries) * 2)
        /\ ~args.use_reranking =>
              out.per_query_k = Max(4, args.top_k \div args.num_queries)

C34_Witness ==
    /\ call = "per_query_k"
    /\ ~args.use_reranking
    /\ args.top_k = 1
    /\ args.num_queries = 1
    /\ out.per_query_k = 4

\* a query fails when the retriever raises or hands back something whose
\* elements are no dicts
QueryFailed(o) ==
    o.raised \/ \E i \in 1..Len(o.value) : o.value[i].kind # "dict"

\* the documents of the queries that did not fail, in query order
RECURSIVE ReturnedDocs(_)
ReturnedDocs(outcomes) ==
    IF outcomes = <<>> THEN <<>>
    ELSE (IF QueryFailed(Head(outcomes)) THEN <<>> ELSE Head(outcomes).value)
         \o ReturnedDocs(Tail(outcomes))

\* the positions of a list that hold the first occurrence of their text
FirstPositions(flat) ==
    {p \in 1..Len(flat) : \A q \in 1..(p - 1) : flat[q].text # flat[p].text}

\* C35: the pool of the multi-query path has no two entries with the same
\* text, keeps for each text the entry (with its source) of the first query
\* that returned it, in the order of first occurrence; a query whose search
\* fails contributes nothing and the later queries still run; an empty pool
\* makes retrieve return [].
C35_PoolDeduplicated ==
    call = "pool" =>
        LET pool == out.all_documents
            flat == ReturnedDocs(args.outcomes)
            first == FirstPositions(flat)
        IN  /\ \A i, j \in 1..Len(pool) : i # j => pool[i].text # pool[j].text
            /\ Len(pool) = Cardinality(first)
            /\ \A p \in first :
                  LET rank == Cardinality({q \in first : q <= p})
                  IN  /\ pool[rank].text = flat[p].text
                      /\ pool[rank].source = flat[p].source
            /\ pool = <<>> => out.results = <<>>

C35_Witness ==
    /\ call = "pool"
    /\ Len(args.outcomes) = 3
    /\ args.outcomes[1].raised
    /\ Len(args.outcomes[2].value) = 2
    /\ ~QueryFailed(args.outcomes[2])
    /\ ~QueryFailed(args.outcomes[3])
    /\ \E i \in 1..Len(args.outcomes[3].value) :
          /\ args.outcomes[3].value[i].text = args.outcomes[2].value[1].text
          /\ args.outcomes[3].value[i].source # args.outcomes[2].value[1].source
    /\ Len(out.all_documents) = 2
    /\ out.all_documents[1] = args.outcomes[2].value[1]

C36_PairsOfPool ==
    \A i \in 1..Len(out) :
        /\ out[i].source \in 1..args.n
        /\ out[i].text = DocText(out[i].source, args.blank)

C36_NoDocumentTwice ==
    \A i, j \in 1..Len(out) : i # j => out[i] # out[j]

C38_ColdNeverShrinks ==
    [][cold.present =>
          /\ cold'.present
          /\ IsPrefix(cold.messages, cold'.messages)]_vars

\* a step of a migration task
LoopStepped == loops' # loops /\ lifecycle' = lifecycle

C37_HotTierUntouched == [][LoopStepped => session_keys' = session_keys]_vars

C37_FailureIsolated ==
    \A l \in LoopIds :
        loops[l].pc = "sleeping" =>
            \A s \in loops[l].scanned \ loops[l].skipped :
                FindOne(chat_sessions, s) # 0

\* C37: a migration pass leaves the hot tier as it is (no key deleted, no
\* content changed, no TTL altered), and a session whose migration fails
\* does not keep the other scanned sessions from being upserted.
C37_MigrationPass == C37_HotTierUntouched /\ []C37_FailureIsolated

C37_Witness ==
    /\ \E l \in LoopIds :
          /\ loops[l].pc = "sleeping"
          /\ loops[l].scanned = SessionIds
          /\ loops[l].skipped = {"s1"}
    /\ FindOne(chat_sessions, "s1") = 0
    /\ FindOne(chat_sessions, "s2") # 0
    /\ \A s \in SessionIds : session_keys[s] = SetSession(<<"A">>)

\* C39: the cold tier holds at most one document per session_id, also when
\* two passes upsert the same session concurrently.
C39_OneDocumentPerSession ==
    \A s \in SessionIds :
        Cardinality({i \in 1..Len(chat_sessions) :
                        chat_sessions[i].session_id = s}) <= 1

ActiveLoops == {l \in LoopIds : loops[l].pc # "none"}

C40_StoppedLoopEnds ==
    (lifecycle = MaxLifecycleCalls /\ ~running) ~> (ActiveLoops = {})

\* C40: at most one session-migration loop is active at any time, for every
\* sequence of start_background_tasks and stop_background_tasks calls.
C40_AtMostOneLoop == Cardinality(ActiveLoops) <= 1

====
